---- MODULE Spec2Model ----
(***************************************************************************)
(* State-machine model of the Sunder semantic front-end: the type          *)
(* registry and symbol tables (src/tir.c) and the resolver                 *)
(* (src/resolve.c).  Every component has its own specification over the    *)
(* variables it owns; the variables of the other components stay idle.     *)
(***************************************************************************)
EXTENDS Integers, Sequences, FiniteSets, TLC

VARIABLES
    \* ---- type registry and symbol tables (src/tir.c) ----
    type_heap,       \* every struct type allocated and kept, by address
    symbol_heap,     \* every struct symbol allocated, by address
    symbol_tables,   \* every struct symbol_table allocated, by address
    unique_calls,    \* history: (canonical name, returned type) per call
    sym_inserted,    \* history: (table, name, symbol) of every insertion done
    last_op,         \* history: the last symbol-table operation and its result
    \* ---- template instantiation (src/resolve.c) ----
    instance_stack,       \* the xget_template_instance calls in progress
    instance_returns,     \* history: the [name, symbol] every request returned
    resolved_count,       \* history: instance name -> times its declaration
                          \* was handed to resolve_decl_function/_struct
    incomplete_functions, \* resolver->incomplete_functions still to complete
    \* ---- imports (src/resolve.c) ----
    import_graph,         \* input: module path -> the paths its imports name
    module_cache,         \* the loaded-modules cache: path -> module
    import_stack,         \* the modules being loaded, outermost first
    \* ---- function bodies (src/resolve.c) ----
    resolver,             \* current_function, current_defer,
                          \* current_loop_defer and is_within_loop
    block_stack,          \* the blocks being resolved, outermost first, each
                          \* with the values its callers saved on entry
    defer_heap,           \* every defer statement created, by address
    stmt_count,           \* statements resolved so far
    \* ---- modules and static storage (src/resolve.c) ----
    resolve_state,        \* the module resolve() is working on, its position
                          \* in it and the history of what it has done; or
                          \* the static reservations not yet registered
    static_symbols,       \* context()->static_symbols, in registration order
    \* ---- process ----
    diag             \* the fatal diagnostic that ended the run, or NoDiag

vars_types == <<type_heap, unique_calls>>

vars_symbols == <<symbol_heap, symbol_tables, sym_inserted, last_op>>

vars_templates == <<instance_stack, instance_returns, resolved_count, incomplete_functions>>
vars_imports == <<import_graph, module_cache, import_stack>>
vars_functions == <<resolver, block_stack, defer_heap, stmt_count>>
vars_module == <<resolve_state, static_symbols>>
vars_resolver == <<vars_templates, vars_imports, vars_functions, vars_module>>
vars == <<vars_types, vars_symbols, vars_resolver, diag>>

\* The null pointer (addresses are indices into the heaps, from 1).
NULL == 0

\* No fatal() call has ended the run.
NoDiag == [msg |-> "none"]

Running == diag = NoDiag

(***************************************************************************)
(* Bounds of the model.                                                    *)
(***************************************************************************)
MaxCalls == 2
MaxArrayCount == 1
MaxParams == 1
MaxTables == 2
MaxDepth == 3
MaxStmts == 4
MaxBlockDepth == 2
MaxTemplateArguments == 2

(***************************************************************************)
(* Formatting helpers: "%zu" of the C library.                             *)
(***************************************************************************)
RECURSIVE fmt_zu(_)
fmt_zu(n) ==
    LET digit(d) == CASE d = 0 -> "0" [] d = 1 -> "1" [] d = 2 -> "2"
                      [] d = 3 -> "3" [] d = 4 -> "4" [] d = 5 -> "5"
                      [] d = 6 -> "6" [] d = 7 -> "7" [] d = 8 -> "8"
                      [] OTHER -> "9"
    IN  IF n < 10 THEN digit(n) ELSE fmt_zu(n \div 10) \o digit(n % 10)

(***************************************************************************)
(* Types (src/tir.c).  A type object is a record; its address is its index *)
(* in type_heap, so pointer equality of types is equality of indices.      *)
(***************************************************************************)
type_new(name, size, kind) ==
    [name |-> name, size |-> size, kind |-> kind,
     base |-> NULL, count |-> 0, parameter_types |-> <<>>, return_type |-> NULL]

type_new_void == type_new("void", 0, "TYPE_VOID")

type_new_u8 == type_new("u8", 1, "TYPE_U8")

\* func(<p0>, <p1>, ...) <ret>
RECURSIVE function_parameter_names(_, _, _)
function_parameter_names(heap, parameter_types, i) ==
    IF i > Len(parameter_types) THEN ""
    ELSE (IF i = 1 THEN "" ELSE ", ") \o heap[parameter_types[i]].name
           \o function_parameter_names(heap, parameter_types, i + 1)

type_new_function(heap, parameter_types, return_type) ==
    [type_new("func(" \o function_parameter_names(heap, parameter_types, 1)
                \o ") " \o heap[return_type].name, 8, "TYPE_FUNCTION")
     EXCEPT !.parameter_types = parameter_types, !.return_type = return_type]

type_new_pointer(heap, base) ==
    [type_new("*" \o heap[base].name, 8, "TYPE_POINTER") EXCEPT !.base = base]

type_new_array(heap, count, base) ==
    [type_new("[" \o fmt_zu(count) \o "]" \o heap[base].name,
              count * heap[base].size, "TYPE_ARRAY")
     EXCEPT !.count = count, !.base = base]

type_new_slice(heap, base) ==
    [type_new("[]" \o heap[base].name, 8 * 2, "TYPE_SLICE") EXCEPT !.base = base]

(***************************************************************************)
(* Symbols and symbol tables (src/tir.c).  A symbol table is a record      *)
(* [parent, symbols] whose symbols field maps a name to the address of a   *)
(* symbol; a symbol's address is its index in symbol_heap.                 *)
(***************************************************************************)
BuiltinLocation == [path |-> "builtin", line |-> 0]

symbol_new(kind, location, name, type) ==
    [kind |-> kind, location |-> location, name |-> name, type |-> type]

symbol_new_type(location, heap, type) ==
    symbol_new("SYMBOL_TYPE", location, heap[type].name, type)

symbol_table_new(parent) == [parent |-> parent, symbols |-> <<>>]

symbol_table_lookup_local(tables, self, name) ==
    IF name \in DOMAIN tables[self].symbols
    THEN tables[self].symbols[name]
    ELSE NULL

RECURSIVE symbol_table_lookup_parent_first(_, _, _)
symbol_table_lookup_parent_first(tables, self, name) ==
    LET up == IF tables[self].parent # NULL
              THEN symbol_table_lookup_parent_first(tables, tables[self].parent, name)
              ELSE NULL
    IN  IF up # NULL THEN up ELSE symbol_table_lookup_local(tables, self, name)

RECURSIVE symbol_table_lookup(_, _, _)
symbol_table_lookup(tables, self, name) ==
    LET local == symbol_table_lookup_local(tables, self, name)
    IN  IF local # NULL THEN local
        ELSE IF tables[self].parent # NULL
        THEN symbol_table_lookup(tables, tables[self].parent, name)
        ELSE NULL

redeclaration(name, location) ==
    [msg |-> "redeclaration", name |-> name,
     path |-> location.path, line |-> location.line]

\* The diagnostic of a failed insertion of `symbol` over `local`.
symbol_table_insert_fatal_new_site(symbols, name, symbol, local) ==
    redeclaration(name, symbols[symbol].location)

symbol_table_insert_fatal(symbols, name, symbol, local) ==
    redeclaration(name, symbols[local].location)

\* Whether an insertion over the existing local binding `local` is refused.
symbol_table_insert_refuses_unless_same(symbol, local) ==
    local # NULL /\ local # symbol

symbol_table_insert_refuses(symbol, local) == local # NULL

\* symbol_table_insert: the tables after the call and the diagnostic of
\* the fatal() that ended the run (NoDiag when the call returned).
symbol_table_insert(symbols, tables, self, name, symbol) ==
    LET local == symbol_table_lookup_local(tables, self, name)
    IN  IF symbol_table_insert_refuses(symbol, local)
        THEN [tables |-> tables,
              diag |-> symbol_table_insert_fatal(symbols, name, symbol, local)]
        ELSE [tables |->
                [tables EXCEPT ![self].symbols =
                    [n \in DOMAIN tables[self].symbols \cup {name} |->
                        IF n = name THEN symbol ELSE tables[self].symbols[n]]],
              diag |-> NoDiag]

(***************************************************************************)
(* The type registry: type_unique_* (src/tir.c).                           *)
(***************************************************************************)
\* context()->global_symbol_table
GLOBAL == 1

\* The type a type_unique_* call returns once the lookup has hit.
type_unique_hit_fresh(existing, fresh_addr) == fresh_addr

type_unique_hit(existing, fresh_addr) == symbol_heap[existing].type

\* The common body of the four type_unique_* functions: `type` is the
\* freshly built (not yet registered) type.
type_unique(type) ==
    LET existing == symbol_table_lookup(symbol_tables, GLOBAL, type.name)
        fresh_addr == Len(type_heap) + 1
        heap == Append(type_heap, type)
        symbol == symbol_new_type(BuiltinLocation, heap, fresh_addr)
        symbols == Append(symbol_heap, symbol)
        inserted == symbol_table_insert(symbols, symbol_tables, GLOBAL,
                                        symbol.name, Len(symbols))
    IN  IF existing # NULL
        THEN /\ unique_calls' = unique_calls \cup
                    {[name |-> type.name, cached |-> TRUE,
                      type |-> type_unique_hit(existing, fresh_addr)]}
             /\ UNCHANGED <<type_heap, symbol_heap, symbol_tables, diag>>
        ELSE /\ type_heap' = heap
             /\ symbol_heap' = symbols
             /\ symbol_tables' = inserted.tables
             /\ diag' = inserted.diag
             /\ unique_calls' = unique_calls \cup
                    {[name |-> type.name, cached |-> FALSE, type |-> fresh_addr]}

type_unique_function ==
    /\ Running
    /\ Cardinality(unique_calls) < MaxCalls
    /\ \E n \in 0..MaxParams :
       \E parameter_types \in [1..n -> DOMAIN type_heap] :
       \E return_type \in DOMAIN type_heap :
          type_unique(type_new_function(type_heap, parameter_types, return_type))
    /\ UNCHANGED <<sym_inserted, last_op, vars_resolver>>

type_unique_pointer ==
    /\ Running
    /\ Cardinality(unique_calls) < MaxCalls
    /\ \E base \in DOMAIN type_heap :
          type_unique(type_new_pointer(type_heap, base))
    /\ UNCHANGED <<sym_inserted, last_op, vars_resolver>>

type_unique_array ==
    /\ Running
    /\ Cardinality(unique_calls) < MaxCalls
    /\ \E count \in 0..MaxArrayCount :
       \E base \in DOMAIN type_heap :
          type_unique(type_new_array(type_heap, count, base))
    /\ UNCHANGED <<sym_inserted, last_op, vars_resolver>>

type_unique_slice ==
    /\ Running
    /\ Cardinality(unique_calls) < MaxCalls
    /\ \E base \in DOMAIN type_heap :
          type_unique(type_new_slice(type_heap, base))
    /\ UNCHANGED <<sym_inserted, last_op, vars_resolver>>

\* The builtin types, registered under their names when the context is set up.
BuiltinTypes == <<type_new_void, type_new_u8>>

NoOp == [op |-> "none"]

\* resolver_new: no function is being completed, resolve() has not begun
\* and no static symbol is registered.
IdleFunctions ==
    /\ resolve_state = NoOp
    /\ static_symbols = <<>>
    /\ resolver = [current_function |-> NULL, current_defer |-> NULL,
                   current_loop_defer |-> NULL, is_within_loop |-> FALSE]
    /\ block_stack = <<>>
    /\ defer_heap = <<>>
    /\ stmt_count = 0

\* The resolver before any declaration has been resolved.
IdleResolver ==
    /\ instance_stack = <<>>
    /\ instance_returns = {}
    /\ resolved_count = <<>>
    /\ incomplete_functions = <<>>
    /\ import_graph = <<>>
    /\ module_cache = <<>>
    /\ import_stack = <<>>
    /\ IdleFunctions

InitTypes ==
    /\ type_heap = BuiltinTypes
    /\ symbol_heap = [i \in DOMAIN BuiltinTypes |->
                         symbol_new_type(BuiltinLocation, BuiltinTypes, i)]
    /\ symbol_tables =
           <<[parent |-> NULL,
              symbols |-> [n \in {BuiltinTypes[i].name : i \in DOMAIN BuiltinTypes} |->
                              CHOOSE j \in DOMAIN BuiltinTypes : BuiltinTypes[j].name = n]]>>
    /\ unique_calls = {}
    /\ sym_inserted = {}
    /\ last_op = NoOp
    /\ IdleResolver
    /\ diag = NoDiag

NextTypes ==
    \/ type_unique_function
    \/ type_unique_pointer
    \/ type_unique_array
    \/ type_unique_slice

SpecTypes == InitTypes /\ [][NextTypes]_vars

(***************************************************************************)
(* C1: after any sequence of type_unique_* calls, two calls with equal     *)
(* canonical names returned the same type object, two calls with different *)
(* canonical names returned different type objects, and the global table   *)
(* binds each canonical name to exactly one registered type of that name.  *)
(***************************************************************************)
C1_TypeCanonicalization ==
    /\ Running
    /\ \A a \in unique_calls : \A b \in unique_calls :
          (a.name = b.name) <=> (a.type = b.type)
    /\ \A a \in unique_calls :
          /\ a.type \in DOMAIN type_heap
          /\ type_heap[a.type].name = a.name
          /\ a.name \in DOMAIN symbol_tables[GLOBAL].symbols
          /\ symbol_heap[symbol_tables[GLOBAL].symbols[a.name]].type = a.type
    /\ \A i \in DOMAIN symbol_heap : \A j \in DOMAIN symbol_heap :
          (/\ symbol_heap[i].kind = "SYMBOL_TYPE"
           /\ symbol_heap[j].kind = "SYMBOL_TYPE"
           /\ symbol_heap[i].name = symbol_heap[j].name) => i = j

\* Two calls built the same canonical name: the first registered the type,
\* the second was served from the global table.
C1_Witness ==
    /\ Len(type_heap) = Len(BuiltinTypes) + 1
    /\ \E a \in unique_calls : \E b \in unique_calls :
          a.name = "*u8" /\ a.cached /\ b.name = "*u8" /\ ~b.cached
    /\ "*u8" \in DOMAIN symbol_tables[GLOBAL].symbols

(***************************************************************************)
(* Symbol tables in isolation: tables are created, symbols are inserted    *)
(* and names are looked up in any order (src/tir.c).                       *)
(***************************************************************************)
SymbolLocation(i) == [path |-> "m.sunder", line |-> i]

\* The declared symbols: two declarations of `a` and one of `b`.
DeclaredNames == <<"a", "a", "b">>

\* The tables that bind `name` on the chain from `self` to its root.
RECURSIVE BindersAbove(_, _, _)
BindersAbove(tables, self, name) ==
    IF self = NULL THEN {}
    ELSE (IF name \in DOMAIN tables[self].symbols THEN {self} ELSE {})
         \cup BindersAbove(tables, tables[self].parent, name)

SymtabNew ==
    /\ Running
    /\ Len(symbol_tables) < MaxTables
    /\ \E parent \in DOMAIN symbol_tables :
          /\ symbol_tables' = Append(symbol_tables, symbol_table_new(parent))
          /\ last_op' = [op |-> "new", self |-> Len(symbol_tables) + 1]
    /\ UNCHANGED <<vars_types, vars_resolver, symbol_heap, sym_inserted, diag>>

SymtabInsert ==
    /\ Running
    /\ \E self \in DOMAIN symbol_tables :
       \E symbol \in DOMAIN symbol_heap :
          LET name == symbol_heap[symbol].name
              r == symbol_table_insert(symbol_heap, symbol_tables, self, name, symbol)
          IN  /\ symbol_tables' = r.tables
              /\ diag' = r.diag
              /\ sym_inserted' =
                    IF r.diag = NoDiag
                    THEN sym_inserted \cup
                            {[table |-> self, name |-> name, symbol |-> symbol,
                              shadows |-> BindersAbove(symbol_tables,
                                              symbol_tables[self].parent, name) # {}]}
                    ELSE sym_inserted
              /\ last_op' = [op |-> "insert", self |-> self, name |-> name,
                             symbol |-> symbol,
                             before |-> symbol_tables[self].symbols]
    /\ UNCHANGED <<vars_types, vars_resolver, symbol_heap>>

SymtabLookup ==
    /\ Running
    /\ \E self \in DOMAIN symbol_tables :
       \E name \in {symbol_heap[i].name : i \in DOMAIN symbol_heap} \cup {"z"} :
          last_op' = [op |-> "lookup", self |-> self, name |-> name,
                      result |-> symbol_table_lookup(symbol_tables, self, name)]
    /\ UNCHANGED <<vars_types, vars_resolver, symbol_heap, symbol_tables, sym_inserted, diag>>

SymtabLookupLocal ==
    /\ Running
    /\ \E self \in DOMAIN symbol_tables :
       \E name \in {symbol_heap[i].name : i \in DOMAIN symbol_heap} \cup {"z"} :
          last_op' = [op |-> "lookup_local", self |-> self, name |-> name,
                      result |-> symbol_table_lookup_local(symbol_tables, self, name)]
    /\ UNCHANGED <<vars_types, vars_resolver, symbol_heap, symbol_tables, sym_inserted, diag>>

InitSymtab ==
    /\ type_heap = <<>>
    /\ unique_calls = {}
    /\ symbol_heap = [i \in DOMAIN DeclaredNames |->
                         symbol_new("SYMBOL_VARIABLE", SymbolLocation(i),
                                    DeclaredNames[i], NULL)]
    /\ symbol_tables = <<symbol_table_new(NULL)>>
    /\ sym_inserted = {}
    /\ last_op = NoOp
    /\ IdleResolver
    /\ diag = NoDiag

NextSymtab ==
    \/ SymtabNew
    \/ SymtabInsert
    \/ SymtabLookup
    \/ SymtabLookupLocal

SpecSymtab == InitSymtab /\ [][NextSymtab]_vars

(***************************************************************************)
(* C2: symbol_table_insert of name n into a table fails with a             *)
(* redeclaration diagnostic citing the location of the previous            *)
(* declaration whenever that table itself already binds n to a different   *)
(* symbol, and an insertion into a table that does not itself bind n       *)
(* succeeds whatever its ancestors bind.                                   *)
(***************************************************************************)
C2_InsertRedeclaration ==
    last_op.op = "insert" =>
        LET name == last_op.name
            before == last_op.before
        IN  /\ (name \in DOMAIN before /\ before[name] # last_op.symbol) =>
                  /\ diag = redeclaration(name, SymbolLocation(before[name]))
                  /\ symbol_tables[last_op.self].symbols = before
            /\ name \notin DOMAIN before =>
                  /\ Running
                  /\ symbol_tables[last_op.self].symbols[name] = last_op.symbol

\* An insertion failed over a different symbol of the same table, after an
\* insertion that shadowed an ancestor's binding had succeeded.
C2_Witness ==
    /\ last_op.op = "insert"
    /\ last_op.name \in DOMAIN last_op.before
    /\ last_op.before[last_op.name] # last_op.symbol
    /\ diag.msg = "redeclaration"
    /\ \E e \in sym_inserted : e.shadows

(***************************************************************************)
(* C3 (as the code has it): inserting into a symbol table the exact same   *)
(* symbol that the table already holds under that name fails with the      *)
(* redeclaration diagnostic, citing that symbol's own location, and leaves *)
(* the table's contents as they were after the first insertion.            *)
(***************************************************************************)
C3_SameSymbolInsertFails ==
    (/\ last_op.op = "insert"
     /\ last_op.name \in DOMAIN last_op.before
     /\ last_op.before[last_op.name] = last_op.symbol) =>
        /\ diag = redeclaration(last_op.name, SymbolLocation(last_op.symbol))
        /\ symbol_tables[last_op.self].symbols = last_op.before

\* C3 as stated: the second insertion of the same symbol does not fail and
\* leaves the contents of the table unchanged.
C3_SameSymbolInsertIsNoOp ==
    (/\ last_op.op = "insert"
     /\ last_op.name \in DOMAIN last_op.before
     /\ last_op.before[last_op.name] = last_op.symbol) =>
        /\ Running
        /\ symbol_tables[last_op.self].symbols = last_op.before

C3_Witness ==
    /\ last_op.op = "insert"
    /\ last_op.name \in DOMAIN last_op.before
    /\ last_op.before[last_op.name] = last_op.symbol
    /\ [table |-> last_op.self, name |-> last_op.name,
        symbol |-> last_op.symbol, shadows |-> FALSE] \in sym_inserted

(***************************************************************************)
(* C4: symbol_table_lookup_local(t, n) returns the symbol inserted into t  *)
(* itself under n and nothing when there is none, whatever the ancestors   *)
(* of t hold; symbol_table_lookup(t, n) returns the symbol inserted under  *)
(* n into the nearest table on the path from t to the root that had such   *)
(* an insertion, and nothing when no table on the path had one.            *)
(***************************************************************************)
\* The path from table t to its root, nearest first.
RECURSIVE C4_Path(_)
C4_Path(t) == IF t = NULL THEN <<>> ELSE <<t>> \o C4_Path(symbol_tables[t].parent)

C4_InsertedInto(t, n) == {e \in sym_inserted : e.table = t /\ e.name = n}

C4_LookupNearest ==
    /\ last_op.op = "lookup_local" =>
          LET here == C4_InsertedInto(last_op.self, last_op.name)
          IN  IF here = {} THEN last_op.result = NULL
              ELSE \E e \in here : last_op.result = e.symbol
    /\ last_op.op = "lookup" =>
          LET path == C4_Path(last_op.self)
              holders == {i \in DOMAIN path :
                             C4_InsertedInto(path[i], last_op.name) # {}}
          IN  IF holders = {} THEN last_op.result = NULL
              ELSE LET nearest == CHOOSE i \in holders : \A j \in holders : i <= j
                   IN  \E e \in C4_InsertedInto(path[nearest], last_op.name) :
                          last_op.result = e.symbol

\* A transitive lookup from the innermost table of the longest chain found
\* that table's own binding although its parent binds another symbol.
C4_Witness ==
    /\ last_op.op = "lookup"
    /\ Len(C4_Path(last_op.self)) = MaxTables
    /\ \E e \in sym_inserted : \E f \in sym_inserted :
          /\ e.table = last_op.self
          /\ f.table = symbol_tables[last_op.self].parent
          /\ e.name = last_op.name /\ f.name = last_op.name
          /\ e.symbol # f.symbol
          /\ last_op.result = e.symbol

(***************************************************************************)
(* Template instantiation: xget_template_instance (src/resolve.c).         *)
(* A template declaration is a record that says, besides its kind, name    *)
(* and template parameters, where it mentions its own instance `name[[T]]`:*)
(* in the signature (a parameter of type typeof(name[[T]])), in the body,  *)
(* or in a member type.                                                    *)
(***************************************************************************)
\* resolver->module->symbols, the table the templates are declared in
MODULE_SYMBOLS == 2

symbol_new_template(location, name, decl, symbol_addr_prefix, parent_symbol_table, symbols) ==
    [kind |-> "SYMBOL_TEMPLATE", location |-> location, name |-> name,
     type |-> NULL, decl |-> decl, symbol_addr_prefix |-> symbol_addr_prefix,
     parent_symbol_table |-> parent_symbol_table, symbols |-> symbols]

\* name[[<t0>, <t1>, ...]]
template_instance_name(heap, name, template_types) ==
    name \o "[[" \o function_parameter_names(heap, template_types, 1) \o "]]"

fatal(msg, name) == [msg |-> msg, name |-> name]

\* The static name normalize() derives from a name, kept as one token.
static_name_of(name) == "normalize(" \o name \o ")"

\* The loop binding every template parameter to its argument type in the
\* instance's symbol table, from parameter i on.
RECURSIVE insert_template_arguments(_, _, _, _, _, _)
insert_template_arguments(symbols, tables, self, template_parameters, template_types, i) ==
    IF i > Len(template_parameters)
    THEN [symbols |-> symbols, tables |-> tables, diag |-> NoDiag]
    ELSE LET symbol == symbol_new_type(SymbolLocation(i), type_heap, template_types[i])
             heap == Append(symbols, symbol)
             r == symbol_table_insert(heap, tables, self,
                                      template_parameters[i], Len(heap))
         IN  IF r.diag # NoDiag
             THEN [symbols |-> heap, tables |-> r.tables, diag |-> r.diag]
             ELSE insert_template_arguments(heap, r.tables, self,
                      template_parameters, template_types, i + 1)

\* The lookup that decides whether an instance already exists.
instance_cache_lookup(tables, cache, name) == symbol_table_lookup(tables, cache, name)

\* The current symbol table and static address prefix of a resolver.
scope_of(self) ==
    [current_symbol_table |-> self.current_symbol_table,
     current_static_addr_prefix |-> self.current_static_addr_prefix]

\* The resolver that keeps the scope of the declaration just resolved.
scope_kept(self, save_symbol_table, save_static_addr_prefix) == self

\* The resolver once the saved prefix and symbol table are assigned back.
scope_restored(self, save_symbol_table, save_static_addr_prefix) ==
    [self EXCEPT !.current_static_addr_prefix = save_static_addr_prefix,
                 !.current_symbol_table = save_symbol_table]

\* What xget_template_instance returned, and the scope it was called in.
instance_returned(name, symbol, existing, entry) ==
    [op |-> "xget_template_instance", name |-> name, symbol |-> symbol,
     existing |-> existing, entry |-> entry]

\* xget_template_instance up to the call of resolve_decl_function or
\* resolve_decl_struct: `stack` holds the calls this one is nested in.
xget_template_instance(symbol, template_types, stack) ==
    LET template == symbol_heap[symbol]
        decl == template.decl
        name == template_instance_name(type_heap, template.name, template_types)
        existing_instance == instance_cache_lookup(symbol_tables, template.symbols, name)
        instance_symbol_table == Len(symbol_tables) + 1
        arguments == insert_template_arguments(
                        symbol_heap,
                        Append(symbol_tables,
                               symbol_table_new(template.parent_symbol_table)),
                        instance_symbol_table,
                        decl.template_parameters, template_types, 1)
        self == symbol_table_insert(arguments.symbols, arguments.tables,
                                    instance_symbol_table, template.name, symbol)
    IN  IF template.kind # "SYMBOL_TEMPLATE"
        THEN /\ diag' = fatal("attempted template instantiation of non-template",
                              template.name)
             /\ UNCHANGED <<symbol_heap, symbol_tables, instance_stack,
                            instance_returns, resolved_count, resolver, last_op>>
        ELSE IF Len(decl.template_parameters) # Len(template_types)
        THEN /\ diag' = fatal("expected template argument(s)", template.name)
             /\ UNCHANGED <<symbol_heap, symbol_tables, instance_stack,
                            instance_returns, resolved_count, resolver, last_op>>
        ELSE IF existing_instance # NULL
        THEN /\ instance_returns' = instance_returns \cup
                    {[name |-> name, symbol |-> existing_instance]}
             /\ instance_stack' = stack
             /\ last_op' = instance_returned(name, existing_instance, TRUE,
                                             scope_of(resolver))
             /\ UNCHANGED <<symbol_heap, symbol_tables, resolved_count, diag,
                            resolver>>
        ELSE IF Len(stack) >= MaxDepth
        THEN /\ diag' = fatal("stack exhausted", name)
             /\ UNCHANGED <<symbol_heap, symbol_tables, instance_stack,
                            instance_returns, resolved_count, resolver, last_op>>
        ELSE IF arguments.diag # NoDiag \/ self.diag # NoDiag
        THEN /\ diag' = IF arguments.diag # NoDiag THEN arguments.diag ELSE self.diag
             /\ UNCHANGED <<symbol_heap, symbol_tables, instance_stack,
                            instance_returns, resolved_count, resolver, last_op>>
        ELSE /\ symbol_heap' = arguments.symbols
             /\ symbol_tables' = self.tables
             /\ resolved_count' =
                    [n \in DOMAIN resolved_count \cup {name} |->
                        (IF n \in DOMAIN resolved_count THEN resolved_count[n] ELSE 0)
                        + (IF n = name THEN 1 ELSE 0)]
             /\ instance_stack' = Append(stack,
                    [symbol |-> symbol, name |-> name, types |-> template_types,
                     table |-> instance_symbol_table, phase |-> "resolve_decl",
                     pending |-> IF decl.kind = "CST_DECL_FUNCTION"
                                 THEN decl.signature_self ELSE FALSE,
                     resolved |-> NULL,
                     save_symbol_table |-> resolver.current_symbol_table,
                     save_static_addr_prefix |-> resolver.current_static_addr_prefix,
                     entry |-> scope_of(resolver)])
             /\ resolver' =
                    [resolver EXCEPT
                        !.current_static_addr_prefix = template.symbol_addr_prefix,
                        !.current_symbol_table = instance_symbol_table]
             /\ last_op' = [op |-> "resolve_decl", name |-> name]
             /\ UNCHANGED <<instance_returns, diag>>

\* The frame of the innermost call in progress, and the stack with that
\* frame marked as having issued its nested request.
top == instance_stack[Len(instance_stack)]

stack_resumed == [instance_stack EXCEPT ![Len(instance_stack)].pending = FALSE]

stack_popped == SubSeq(instance_stack, 1, Len(instance_stack) - 1)

\* The request `name[[T]]` made where the current symbol table is `table`:
\* both identifiers are resolved through that table (xget_symbol).
self_instance(table, name, stack) ==
    LET template == symbol_table_lookup(symbol_tables, table, name)
        T == symbol_table_lookup(symbol_tables, table, "T")
    IN  xget_template_instance(template, <<symbol_heap[T].type>>, stack)

OthersOfTemplates == <<vars_types, vars_imports, vars_module, sym_inserted,
                       defer_heap, stmt_count>>

\* A use `name[[types]]` in the module, outside of any instantiation and
\* of any function body.
InstantiateTemplate ==
    /\ Running
    /\ instance_stack = <<>>
    /\ block_stack = <<>>
    /\ \E name \in DOMAIN symbol_tables[MODULE_SYMBOLS].symbols \cup {"u8"} :
       \E n \in 1..MaxTemplateArguments :
       \E template_types \in [1..n -> DOMAIN type_heap] :
          xget_template_instance(
              symbol_table_lookup(symbol_tables, resolver.current_symbol_table, name),
              template_types, <<>>)
    /\ UNCHANGED <<OthersOfTemplates, block_stack, incomplete_functions>>

\* resolve_decl_function of an instance reaches a parameter whose type
\* mentions the instance itself.
ResolveSignature ==
    /\ Running
    /\ instance_stack # <<>>
    /\ top.phase = "resolve_decl"
    /\ top.pending
    /\ self_instance(resolver.current_symbol_table, symbol_heap[top.symbol].name,
                     stack_resumed)
    /\ UNCHANGED <<OthersOfTemplates, block_stack, incomplete_functions>>

\* resolve_decl_function returns the instance's function symbol, which is
\* then added to the template's cache and returned.
ResolveDeclFunction ==
    /\ Running
    /\ instance_stack # <<>>
    /\ top.phase = "resolve_decl"
    /\ ~top.pending
    /\ symbol_heap[top.symbol].decl.kind = "CST_DECL_FUNCTION"
    /\ LET template == symbol_heap[top.symbol]
           function_symbol == symbol_new("SYMBOL_FUNCTION",
                                  SymbolLocation(top.symbol), top.name, NULL)
           heap == Append(symbol_heap, function_symbol)
           resolved_symbol == Len(heap)
           declared == symbol_table_insert(heap, symbol_tables,
                                           resolver.current_symbol_table,
                                           top.name, resolved_symbol)
           cached == symbol_table_insert(heap, declared.tables, template.symbols,
                                         top.name, resolved_symbol)
       IN  /\ symbol_heap' = heap
           /\ symbol_tables' = cached.tables
           /\ diag' = IF declared.diag # NoDiag THEN declared.diag ELSE cached.diag
           /\ incomplete_functions' = Append(incomplete_functions,
                  [name |-> template.name, function |-> resolved_symbol,
                   address |-> static_name_of(top.name),
                   symbol_table |-> resolver.current_symbol_table,
                   body_self |-> template.decl.body_self,
                   body_struct |-> template.decl.body_struct])
           /\ instance_stack' = stack_popped
           /\ instance_returns' = instance_returns \cup
                  {[name |-> top.name, symbol |-> resolved_symbol]}
           /\ resolver' = scope_restored(resolver, top.save_symbol_table,
                                         top.save_static_addr_prefix)
           /\ last_op' = instance_returned(top.name, resolved_symbol, FALSE, top.entry)
    /\ UNCHANGED <<OthersOfTemplates, block_stack, resolved_count>>

\* The tables once a struct instance is in its template's cache.
struct_instance_uncached(heap, tables, cache, name, symbol) ==
    [tables |-> tables, diag |-> NoDiag]

struct_instance_cached(heap, tables, cache, name, symbol) ==
    symbol_table_insert(heap, tables, cache, name, symbol)

\* resolve_decl_struct returns the instance's type symbol, which is added
\* to the template's cache before complete_struct is entered.
ResolveDeclStruct ==
    /\ Running
    /\ instance_stack # <<>>
    /\ top.phase = "resolve_decl"
    /\ ~top.pending
    /\ symbol_heap[top.symbol].decl.kind = "CST_DECL_STRUCT"
    /\ LET template == symbol_heap[top.symbol]
           struct_symbols == Len(symbol_tables) + 1
           type_symbol == symbol_new("SYMBOL_TYPE",
                              SymbolLocation(top.symbol), top.name, NULL)
           heap == Append(symbol_heap, type_symbol)
           resolved_symbol == Len(heap)
           declared == symbol_table_insert(heap,
                           Append(symbol_tables,
                                  symbol_table_new(resolver.current_symbol_table)),
                           resolver.current_symbol_table, top.name, resolved_symbol)
           returned == scope_restored(resolver, top.save_symbol_table,
                                      top.save_static_addr_prefix)
           cached == struct_instance_cached(heap, declared.tables, template.symbols,
                                            top.name, resolved_symbol)
       IN  /\ symbol_heap' = heap
           /\ symbol_tables' = cached.tables
           /\ diag' = IF declared.diag # NoDiag THEN declared.diag ELSE cached.diag
           /\ instance_stack' =
                  [instance_stack EXCEPT ![Len(instance_stack)] =
                      [@ EXCEPT !.phase = "complete_struct",
                                !.pending = template.decl.members_self,
                                !.resolved = resolved_symbol,
                                !.save_symbol_table = returned.current_symbol_table,
                                !.save_static_addr_prefix =
                                    returned.current_static_addr_prefix]]
           /\ resolver' =
                  [returned EXCEPT
                      !.current_static_addr_prefix = static_name_of(top.name),
                      !.current_symbol_table = struct_symbols]
           /\ last_op' = [op |-> "complete_struct", name |-> top.name]
    /\ UNCHANGED <<OthersOfTemplates, block_stack, instance_returns, resolved_count,
                   incomplete_functions>>

\* complete_struct reaches a member whose type mentions the instance itself.
CompleteStructMember ==
    /\ Running
    /\ instance_stack # <<>>
    /\ top.phase = "complete_struct"
    /\ top.pending
    /\ self_instance(resolver.current_symbol_table, symbol_heap[top.symbol].name,
                     stack_resumed)
    /\ UNCHANGED <<OthersOfTemplates, block_stack, incomplete_functions>>

\* complete_struct is done and xget_template_instance returns the symbol.
CompleteStruct ==
    /\ Running
    /\ instance_stack # <<>>
    /\ top.phase = "complete_struct"
    /\ ~top.pending
    /\ instance_stack' = stack_popped
    /\ instance_returns' = instance_returns \cup
           {[name |-> top.name, symbol |-> top.resolved]}
    /\ resolver' = scope_restored(resolver, top.save_symbol_table,
                                  top.save_static_addr_prefix)
    /\ last_op' = instance_returned(top.name, top.resolved, FALSE, top.entry)
    /\ UNCHANGED <<OthersOfTemplates, block_stack, symbol_heap, symbol_tables,
                   resolved_count, incomplete_functions, diag>>

\* The loop at the end of resolve(): complete_function enters the body of
\* the next incomplete function, a block whose symbol table is a child of
\* the function's own.
CompleteFunction ==
    /\ Running
    /\ instance_stack = <<>>
    /\ block_stack = <<>>
    /\ incomplete_functions # <<>>
    /\ LET incomplete == Head(incomplete_functions)
       IN  /\ symbol_tables' = Append(symbol_tables,
                                      symbol_table_new(incomplete.symbol_table))
           /\ block_stack' =
                  <<[save_static_addr_prefix |-> resolver.current_static_addr_prefix,
                     save_symbol_table |-> resolver.current_symbol_table,
                     pending |-> (IF incomplete.body_self
                                  THEN <<incomplete.name>> ELSE <<>>)
                                 \o (IF incomplete.body_struct
                                     THEN <<"bar">> ELSE <<>>)]>>
           /\ resolver' =
                  [resolver EXCEPT
                      !.current_static_addr_prefix = incomplete.address,
                      !.current_function = incomplete.function,
                      !.current_symbol_table = Len(symbol_tables) + 1]
           /\ last_op' = [op |-> "complete_function", name |-> incomplete.name]
    /\ incomplete_functions' = Tail(incomplete_functions)
    /\ UNCHANGED <<OthersOfTemplates, symbol_heap, instance_stack, instance_returns,
                   resolved_count, diag>>

\* The body being completed reaches a use of a template.
ResolveBody ==
    /\ Running
    /\ instance_stack = <<>>
    /\ block_stack # <<>>
    /\ block_stack[1].pending # <<>>
    /\ self_instance(resolver.current_symbol_table, Head(block_stack[1].pending), <<>>)
    /\ block_stack' = [block_stack EXCEPT ![1].pending = Tail(@)]
    /\ UNCHANGED <<OthersOfTemplates, incomplete_functions>>

\* resolve_block and then complete_function return.
CompleteFunctionReturn ==
    /\ Running
    /\ instance_stack = <<>>
    /\ block_stack # <<>>
    /\ block_stack[1].pending = <<>>
    /\ resolver' = [scope_restored(resolver, block_stack[1].save_symbol_table,
                                   block_stack[1].save_static_addr_prefix)
                    EXCEPT !.current_function = NULL]
    /\ block_stack' = <<>>
    /\ last_op' = [op |-> "complete_function_return"]
    /\ UNCHANGED <<OthersOfTemplates, symbol_heap, symbol_tables, instance_stack,
                   instance_returns, resolved_count, incomplete_functions, diag>>

\* The module declares the function template foo[[T]] and the struct
\* template bar[[T]]; either may mention its own instance, and the body of
\* foo may mention bar[[T]].
InitTemplates ==
    /\ type_heap = BuiltinTypes
    /\ unique_calls = {}
    /\ \E signature_self \in BOOLEAN, body_self \in BOOLEAN,
          body_struct \in BOOLEAN, members_self \in BOOLEAN :
          symbol_heap =
              [i \in DOMAIN BuiltinTypes |->
                   symbol_new_type(BuiltinLocation, BuiltinTypes, i)]
              \o <<symbol_new_template(SymbolLocation(1), "foo",
                       [kind |-> "CST_DECL_FUNCTION", template_parameters |-> <<"T">>,
                        signature_self |-> signature_self, body_self |-> body_self,
                        body_struct |-> body_struct],
                       "", MODULE_SYMBOLS, MODULE_SYMBOLS + 1),
                   symbol_new_template(SymbolLocation(2), "bar",
                       [kind |-> "CST_DECL_STRUCT", template_parameters |-> <<"T">>,
                        members_self |-> members_self],
                       "", MODULE_SYMBOLS, MODULE_SYMBOLS + 2)>>
    /\ symbol_tables =
           <<[parent |-> NULL,
              symbols |-> [n \in {BuiltinTypes[i].name : i \in DOMAIN BuiltinTypes} |->
                              CHOOSE j \in DOMAIN BuiltinTypes : BuiltinTypes[j].name = n]],
             [parent |-> GLOBAL,
              symbols |-> [n \in {"foo", "bar"} |->
                              Len(BuiltinTypes) + (IF n = "foo" THEN 1 ELSE 2)]],
             symbol_table_new(MODULE_SYMBOLS),
             symbol_table_new(MODULE_SYMBOLS)>>
    /\ sym_inserted = {}
    /\ last_op = NoOp
    /\ instance_stack = <<>>
    /\ instance_returns = {}
    /\ resolved_count = <<>>
    /\ incomplete_functions = <<>>
    /\ import_graph = <<>>
    /\ module_cache = <<>>
    /\ import_stack = <<>>
    /\ resolve_state = NoOp
    /\ static_symbols = <<>>
    /\ resolver = [current_function |-> NULL, current_symbol_table |-> MODULE_SYMBOLS,
                   current_static_addr_prefix |-> ""]
    /\ block_stack = <<>>
    /\ defer_heap = <<>>
    /\ stmt_count = 0
    /\ diag = NoDiag

NextTemplates ==
    \/ InstantiateTemplate
    \/ ResolveSignature
    \/ ResolveDeclFunction
    \/ ResolveDeclStruct
    \/ CompleteStructMember
    \/ CompleteStruct
    \/ CompleteFunction
    \/ ResolveBody
    \/ CompleteFunctionReturn

SpecTemplates == InitTemplates /\ [][NextTemplates]_vars

(***************************************************************************)
(* C5 as stated: any two instantiation requests with the same mangled      *)
(* instance name return the same symbol, and the declaration of an         *)
(* instance name is handed to resolve_decl_function / resolve_decl_struct  *)
(* at most once.                                                           *)
(***************************************************************************)
C5_InstanceResolvedOnce ==
    /\ \A a \in instance_returns : \A b \in instance_returns :
          a.name = b.name => a.symbol = b.symbol
    /\ \A n \in DOMAIN resolved_count : resolved_count[n] <= 1

(***************************************************************************)
(* C21: whenever xget_template_instance has returned, for a cache hit or   *)
(* a fresh function or struct instance at any depth of nesting, the        *)
(* resolver's current_symbol_table and current_static_addr_prefix are the  *)
(* ones of the call; while resolve_decl_function or resolve_decl_struct    *)
(* works on the instance declaration they are the instance's symbol table  *)
(* and the prefix saved in the template symbol.                            *)
(***************************************************************************)
C21_ScopeRestored ==
    /\ last_op.op = "xget_template_instance" =>
          /\ resolver.current_symbol_table = last_op.entry.current_symbol_table
          /\ resolver.current_static_addr_prefix =
                 last_op.entry.current_static_addr_prefix
    /\ (instance_stack # <<>> /\ top.phase = "resolve_decl") =>
          /\ resolver.current_symbol_table = top.table
          /\ resolver.current_static_addr_prefix =
                 symbol_heap[top.symbol].symbol_addr_prefix

\* A struct instance requested by a function body, whose scope differs from
\* the template's, was instantiated and completed, and the call returned.
C21_Witness ==
    /\ last_op.op = "xget_template_instance"
    /\ ~last_op.existing
    /\ symbol_heap[last_op.symbol].kind = "SYMBOL_TYPE"
    /\ block_stack # <<>>
    /\ last_op.entry.current_static_addr_prefix # ""
    /\ last_op.entry.current_symbol_table # MODULE_SYMBOLS

\* The frames of the struct instances whose members are being completed.
C22_Completing ==
    {i \in DOMAIN instance_stack : instance_stack[i].phase = "complete_struct"}

(***************************************************************************)
(* C22: while the members of a struct instance are completed the instance  *)
(* symbol is in the cache of its template, a request for the same instance *)
(* name made by a member is a cache hit returning that symbol, the         *)
(* declaration of the instance is resolved once, and no second             *)
(* instantiation of the name is started, so the calls do not nest without  *)
(* end.                                                                    *)
(***************************************************************************)
C22_StructSelfReference ==
    /\ \A i \in C22_Completing :
          LET frame == instance_stack[i]
          IN  /\ symbol_table_lookup(symbol_tables,
                                     symbol_heap[frame.symbol].symbols,
                                     frame.name) = frame.resolved
              /\ resolved_count[frame.name] = 1
              /\ \A j \in DOMAIN instance_stack :
                    instance_stack[j].name = frame.name => j = i
              /\ \A r \in instance_returns :
                    r.name = frame.name => r.symbol = frame.resolved
              /\ diag.msg = "stack exhausted" => diag.name # frame.name
    /\ \A r \in instance_returns :
          symbol_heap[r.symbol].kind = "SYMBOL_TYPE" => resolved_count[r.name] = 1

\* A member of the struct instance being completed has requested the
\* instance itself and got its symbol from the cache.
C22_Witness ==
    /\ instance_stack # <<>>
    /\ top.phase = "complete_struct"
    /\ symbol_heap[top.symbol].decl.members_self
    /\ ~top.pending
    /\ last_op.op = "xget_template_instance"
    /\ last_op.existing
    /\ last_op.name = top.name
    /\ last_op.symbol = top.resolved

(***************************************************************************)
(* Merging an imported module's exports: merge_symbol_table                *)
(* (src/resolve.c).                                                        *)
(***************************************************************************)
symbol_new_namespace(location, name, symbols) ==
    [kind |-> "SYMBOL_NAMESPACE", location |-> location, name |-> name,
     type |-> NULL, symbols |-> symbols]

\* The order in which the elements of a symbol table are visited.
NameOrder == <<"a", "b", "n">>

\* Whether a non-namespace element is inserted, given the local binding.
merge_inserts_if_unbound(existing, symbol) == existing = NULL

merge_inserts(existing, symbol) == existing = NULL \/ existing # symbol

\* merge_symbol_table from element i of othr on: the symbols, the tables
\* and the diagnostic once the loop has ended or fatal() was called.
RECURSIVE merge_symbol_table(_, _, _, _, _)
merge_symbol_table(symbols, tables, self, othr, i) ==
    IF i > Len(NameOrder)
    THEN [symbols |-> symbols, tables |-> tables, diag |-> NoDiag]
    ELSE IF NameOrder[i] \notin DOMAIN tables[othr].symbols
    THEN merge_symbol_table(symbols, tables, self, othr, i + 1)
    ELSE
    LET name == NameOrder[i]
        symbol == tables[othr].symbols[name]
        found == symbol_table_lookup_local(tables, self, name)
    IN  IF symbols[symbol].kind = "SYMBOL_NAMESPACE"
        THEN LET table == Len(tables) + 1
                 namespace == symbol_new_namespace(symbols[symbol].location,
                                                   symbols[symbol].name, table)
                 symbols1 == IF found = NULL THEN Append(symbols, namespace)
                                             ELSE symbols
                 created == IF found = NULL
                            THEN symbol_table_insert(symbols1,
                                     Append(tables, symbol_table_new(self)),
                                     self, name, Len(symbols1))
                            ELSE [tables |-> tables, diag |-> NoDiag]
                 existing == IF found = NULL THEN Len(symbols1) ELSE found
                 collision == IF symbols1[existing].kind # "SYMBOL_NAMESPACE"
                              THEN symbol_table_insert(symbols1, created.tables,
                                                       self, name, symbol)
                              ELSE created
             IN  IF collision.diag # NoDiag
                 THEN [symbols |-> symbols1, tables |-> collision.tables,
                       diag |-> collision.diag]
                 ELSE LET inner == merge_symbol_table(symbols1, collision.tables,
                                       symbols1[existing].symbols,
                                       symbols[symbol].symbols, 1)
                      IN  IF inner.diag # NoDiag THEN inner
                          ELSE merge_symbol_table(inner.symbols, inner.tables,
                                                  self, othr, i + 1)
        ELSE IF merge_inserts(found, symbol)
        THEN LET inserted == symbol_table_insert(symbols, tables, self, name, symbol)
             IN  IF inserted.diag # NoDiag
                 THEN [symbols |-> symbols, tables |-> inserted.tables,
                       diag |-> inserted.diag]
                 ELSE merge_symbol_table(symbols, inserted.tables, self, othr, i + 1)
        ELSE merge_symbol_table(symbols, tables, self, othr, i + 1)

\* The shapes an export table takes here: `a` unbound or one of the two
\* declarations of `a`; `n` unbound, a variable, or a namespace holding
\* `a` and `b` in the same manner.
ExportShapes ==
    {sh \in [a : {NULL, 1, 2}, n : {"none", "variable", "namespace"},
             na : {NULL, 1, 2}, nb : {NULL, 3}] :
        sh.n # "namespace" => (sh.na = NULL /\ sh.nb = NULL)}

\* A table binding the given names to the given symbols (NULL: unbound).
table_of(parent, bindings) ==
    [parent |-> parent,
     symbols |-> [name \in {x \in DOMAIN bindings : bindings[x] # NULL} |->
                     bindings[name]]]

\* Tables 3 and 4 are the export tables of the two imported modules, tables
\* 5 and 6 their namespaces `n`; symbols 5 and 6 are those namespaces.
export_tables(x, y) ==
    LET exported(sh, variable, namespace) ==
            [a |-> sh.a,
             n |-> CASE sh.n = "none" -> NULL
                     [] sh.n = "variable" -> variable
                     [] OTHER -> namespace]
    IN  <<table_of(NULL, exported(x, 4, 5)), table_of(NULL, exported(y, 4, 6)),
          table_of(NULL, [a |-> x.na, b |-> x.nb]),
          table_of(NULL, [a |-> y.na, b |-> y.nb])>>

\* resolve_import_file, once the imported module is loaded: its exports
\* are merged into the symbols of the importing module.
MergeImport ==
    /\ Running
    /\ \E othr \in {MODULE_SYMBOLS + 1, MODULE_SYMBOLS + 2} :
          LET merged == merge_symbol_table(symbol_heap, symbol_tables,
                                           MODULE_SYMBOLS, othr, 1)
          IN  /\ symbol_heap' = merged.symbols
              /\ symbol_tables' = merged.tables
              /\ diag' = merged.diag
              /\ last_op' = [op |-> "merge", self |-> MODULE_SYMBOLS,
                             othr |-> othr, before |-> symbol_tables]
    /\ UNCHANGED <<vars_types, vars_resolver, sym_inserted>>

InitMerge ==
    /\ type_heap = <<>>
    /\ unique_calls = {}
    /\ symbol_heap =
           [i \in DOMAIN DeclaredNames |->
               symbol_new("SYMBOL_VARIABLE", SymbolLocation(i), DeclaredNames[i], NULL)]
           \o <<symbol_new("SYMBOL_VARIABLE", SymbolLocation(4), "n", NULL),
                symbol_new_namespace(SymbolLocation(5), "n", 5),
                symbol_new_namespace(SymbolLocation(6), "n", 6)>>
    /\ \E x \in ExportShapes : \E y \in ExportShapes :
          symbol_tables = <<symbol_table_new(NULL), symbol_table_new(GLOBAL)>>
                          \o export_tables(x, y)
    /\ sym_inserted = {}
    /\ last_op = NoOp
    /\ IdleResolver
    /\ diag = NoDiag

NextMerge == MergeImport

SpecMerge == InitMerge /\ [][NextMerge]_vars

(***************************************************************************)
(* C7: merging an export table into a module's table unions namespaces     *)
(* recursively: when no name of the export table is bound, at the same     *)
(* place, to a different symbol, the merge succeeds and the module's table *)
(* holds exactly what it held plus what the export table holds; an entry   *)
(* bound already to the very same symbol changes nothing; and when some    *)
(* entry of the export table names a place bound to a different symbol     *)
(* the merge ends in a redeclaration error.                                *)
(***************************************************************************)
\* What a table holds: one [path, symbol] per non-namespace entry and one
\* [path, NULL] per namespace, for this table and, recursively, for its
\* namespaces.
RECURSIVE C7_Contents(_, _, _)
C7_Contents(tables, t, prefix) ==
    UNION {LET symbol == symbol_heap[tables[t].symbols[name]]
               path == Append(prefix, name)
           IN  IF symbol.kind = "SYMBOL_NAMESPACE"
               THEN {[path |-> path, symbol |-> NULL]}
                    \cup C7_Contents(tables, symbol.symbols, path)
               ELSE {[path |-> path, symbol |-> tables[t].symbols[name]]}
           : name \in DOMAIN tables[t].symbols}

C7_MergeUnion ==
    last_op.op = "merge" =>
        LET before == C7_Contents(last_op.before, last_op.self, <<>>)
            other == C7_Contents(last_op.before, last_op.othr, <<>>)
            after == C7_Contents(symbol_tables, last_op.self, <<>>)
            conflict == \E e \in other : \E f \in before :
                            e.path = f.path /\ e.symbol # f.symbol
        IN  /\ conflict <=> diag.msg = "redeclaration"
            /\ ~conflict => after = before \cup other
            /\ other \subseteq before => symbol_tables = last_op.before

\* A second import brought a namespace the module already had with other
\* contents, and an entry the module had already bound to the same symbol.
C7_Witness ==
    /\ last_op.op = "merge"
    /\ Running
    /\ LET before == C7_Contents(last_op.before, last_op.self, <<>>)
           other == C7_Contents(last_op.before, last_op.othr, <<>>)
       IN  /\ [path |-> <<"a">>, symbol |-> 1] \in before \cap other
           /\ [path |-> <<"n", "a">>, symbol |-> 2] \in before \ other
           /\ [path |-> <<"n", "b">>, symbol |-> 3] \in other \ before

(***************************************************************************)
(* Imports: resolve_import_file (src/resolve.c) over the loaded-modules    *)
(* cache.  lookup_module and load_module are not part of resolve.c; they   *)
(* are taken from the specification: a module enters the cache when its    *)
(* loading begins and is marked loaded when its resolution has returned.   *)
(***************************************************************************)
ModulePaths == {"main.sunder", "x.sunder", "y.sunder"}

\* The one top-level declaration of each module.
DeclaredBy(path) ==
    CASE path = "main.sunder" -> "a" [] path = "x.sunder" -> "b" [] OTHER -> "n"

\* The null module pointer.
NULL_MODULE == [loaded |-> "NULL"]

lookup_module(cache, path) ==
    IF path \in DOMAIN cache THEN cache[path] ELSE NULL_MODULE

\* load_module up to its call of resolve(): the module is created with its
\* two tables and entered into the cache, not yet loaded.
load_module(cache, tables, path) ==
    [cache |-> [p \in DOMAIN cache \cup {path} |->
                   IF p = path
                   THEN [loaded |-> FALSE, symbols |-> Len(tables) + 1,
                         exports |-> Len(tables) + 2]
                   ELSE cache[p]],
     tables |-> tables \o <<symbol_table_new(GLOBAL), symbol_table_new(NULL)>>]

circular_dependency(file_name) ==
    [msg |-> "circular dependency when importing", name |-> file_name]

\* Whether the module an import resolved to makes the import circular.
import_never_circular(module) == FALSE

import_is_circular(module) == ~module.loaded

\* resolve_import_file for one import of the module being resolved.  When
\* the imported module is not in the cache its loading begins here and the
\* rest of this call runs when that loading has returned.
ResolveImportFile ==
    /\ Running
    /\ import_stack # <<>>
    /\ LET depth == Len(import_stack)
           importer == import_stack[depth]
       IN  \E file_name \in importer.remaining :
           LET module == lookup_module(module_cache, file_name)
               loading == load_module(module_cache, symbol_tables, file_name)
               merged == merge_symbol_table(symbol_heap, symbol_tables,
                             module_cache[importer.path].symbols, module.exports, 1)
               imported == [import_stack EXCEPT ![depth].remaining = @ \ {file_name}]
           IN  /\ last_op' = [op |-> "import", importer |-> importer.path,
                              file_name |-> file_name,
                              cached |-> module # NULL_MODULE,
                              loaded |-> IF module # NULL_MODULE THEN module.loaded
                                                                 ELSE FALSE]
               /\ IF module = NULL_MODULE
                  THEN /\ module_cache' = loading.cache
                       /\ symbol_tables' = loading.tables
                       /\ import_stack' = Append(imported,
                              [path |-> file_name,
                               remaining |-> import_graph[file_name]])
                       /\ UNCHANGED <<symbol_heap, diag>>
                  ELSE IF import_is_circular(module)
                  THEN /\ diag' = circular_dependency(file_name)
                       /\ UNCHANGED <<module_cache, symbol_tables, symbol_heap,
                                      import_stack>>
                  ELSE /\ symbol_heap' = merged.symbols
                       /\ symbol_tables' = merged.tables
                       /\ diag' = merged.diag
                       /\ import_stack' = imported
                       /\ UNCHANGED module_cache
    /\ UNCHANGED <<vars_types, vars_templates, vars_functions, vars_module, import_graph,
                   sym_inserted>>

\* The rest of resolve() for the module on top of the stack once all of its
\* imports are resolved, the return of load_module, and the rest of the
\* resolve_import_file call that had begun the loading.
ResolveModule ==
    /\ Running
    /\ import_stack # <<>>
    /\ LET depth == Len(import_stack)
           path == import_stack[depth].path
           module == module_cache[path]
           name == DeclaredBy(path)
           symbol == symbol_new("SYMBOL_VARIABLE", SymbolLocation(depth), name, NULL)
           heap == Append(symbol_heap, symbol)
           declared == symbol_table_insert(heap, symbol_tables, module.symbols,
                                           name, Len(heap))
           exported == symbol_table_insert(heap, declared.tables, module.exports,
                                           name, Len(heap))
           global == symbol_table_insert(heap, exported.tables, GLOBAL,
                                         name, Len(heap))
           failed == IF declared.diag # NoDiag THEN declared.diag
                     ELSE IF exported.diag # NoDiag THEN exported.diag
                     ELSE global.diag
           cache == [module_cache EXCEPT ![path].loaded = TRUE]
           merged == merge_symbol_table(heap, global.tables,
                         cache[import_stack[depth - 1].path].symbols,
                         module.exports, 1)
       IN  /\ import_stack[depth].remaining = {}
           /\ last_op' = [op |-> "resolve", path |-> path]
           /\ IF failed # NoDiag
              THEN /\ diag' = failed
                   /\ UNCHANGED <<symbol_heap, symbol_tables, module_cache,
                                  import_stack>>
              ELSE /\ module_cache' = cache
                   /\ import_stack' = SubSeq(import_stack, 1, depth - 1)
                   /\ IF depth = 1
                      THEN /\ symbol_heap' = heap
                           /\ symbol_tables' = global.tables
                           /\ UNCHANGED diag
                      ELSE IF import_is_circular(cache[path])
                      THEN /\ diag' = circular_dependency(path)
                           /\ symbol_heap' = heap
                           /\ symbol_tables' = global.tables
                      ELSE /\ symbol_heap' = merged.symbols
                           /\ symbol_tables' = merged.tables
                           /\ diag' = merged.diag
    /\ UNCHANGED <<vars_types, vars_templates, vars_functions, vars_module, import_graph,
                   sym_inserted>>

\* The compiler has begun loading the main module of some import graph.
InitImports ==
    /\ type_heap = <<>>
    /\ unique_calls = {}
    /\ symbol_heap = <<>>
    /\ import_graph \in [ModulePaths -> SUBSET ModulePaths]
    /\ LET loading == load_module(<<>>, <<symbol_table_new(NULL)>>, "main.sunder")
       IN  /\ module_cache = loading.cache
           /\ symbol_tables = loading.tables
    /\ import_stack = <<[path |-> "main.sunder",
                         remaining |-> import_graph["main.sunder"]]>>
    /\ instance_stack = <<>>
    /\ instance_returns = {}
    /\ resolved_count = <<>>
    /\ incomplete_functions = <<>>
    /\ IdleFunctions
    /\ sym_inserted = {}
    /\ last_op = NoOp
    /\ diag = NoDiag

NextImports ==
    \/ ResolveImportFile
    \/ ResolveModule

SpecImports == InitImports /\ [][NextImports]_vars

(***************************************************************************)
(* C6: an import that resolves to a module that is in the loaded-modules   *)
(* cache but not yet loaded ends the run with the circular-dependency      *)
(* error, so no run whose main module reaches an import cycle completes;   *)
(* and when the import graph is acyclic, also when a module is reached     *)
(* through two paths, no circular-dependency error is raised.              *)
(***************************************************************************)
\* The modules reached from the set S by at most k further imports.
RECURSIVE C6_Reach(_, _)
C6_Reach(S, k) ==
    IF k = 0 THEN S
    ELSE C6_Reach(S \cup UNION {import_graph[m] : m \in S}, k - 1)

C6_OnCycle(m) == m \in C6_Reach(import_graph[m], Cardinality(ModulePaths))

C6_CircularImport ==
    /\ (last_op.op = "import" /\ last_op.cached /\ ~last_op.loaded) =>
          diag = circular_dependency(last_op.file_name)
    /\ (import_stack = <<>> /\ Running) =>
          \A m \in C6_Reach({"main.sunder"}, Cardinality(ModulePaths)) :
              ~C6_OnCycle(m)
    /\ (\A m \in ModulePaths : ~C6_OnCycle(m)) =>
          diag.msg # "circular dependency when importing"

\* main imports x and y; y was loaded for main, was then found loaded when x
\* imported it too, and x's import of main was rejected as circular.
C6_Witness ==
    /\ diag = circular_dependency("main.sunder")
    /\ last_op = [op |-> "import", importer |-> "x.sunder",
                  file_name |-> "main.sunder", cached |-> TRUE, loaded |-> FALSE]
    /\ import_graph["main.sunder"] = {"x.sunder", "y.sunder"}
    /\ import_graph["y.sunder"] = {}
    /\ "y.sunder" \in import_graph["x.sunder"]
    /\ "y.sunder" \notin import_stack[Len(import_stack)].remaining
    /\ module_cache["y.sunder"].loaded
    /\ "n" \in DOMAIN symbol_tables[module_cache["x.sunder"].symbols].symbols
    /\ "n" \in DOMAIN symbol_tables[module_cache["main.sunder"].symbols].symbols

(***************************************************************************)
(* Function bodies: complete_function, resolve_block and the statement     *)
(* resolvers (src/resolve.c).  The statements of a body arrive one by one; *)
(* a frame of block_stack is one resolve_block call in progress together   *)
(* with the values the statement resolver that called it has saved.  The   *)
(* fields cst_last, declared and entry_head of a frame are history: the    *)
(* kind of the last statement of the block as written, the defers declared *)
(* directly in the block so far, and for a loop body the lexical defer     *)
(* head at the loop.                                                       *)
(***************************************************************************)
\* The latest defer declared in a still-open block, innermost block first.
RECURSIVE lexical_defer_head(_, _)
lexical_defer_head(stack, i) ==
    IF i = 0 THEN NULL
    ELSE IF stack[i].declared # <<>>
    THEN stack[i].declared[Len(stack[i].declared)]
    ELSE lexical_defer_head(stack, i - 1)

\* resolve_block on entry: the block's frame.
block_enter(kind) ==
    [kind |-> kind,
     save_current_defer |-> resolver.current_defer,
     save_is_within_loop |-> resolver.is_within_loop,
     save_current_loop_defer |-> resolver.current_loop_defer,
     count |-> 0, last |-> "none",
     cst_last |-> "none", declared |-> <<>>,
     entry_head |-> lexical_defer_head(block_stack, Len(block_stack))]

\* The value resolve_block leaves in current_defer when it returns.
resolve_block_keeps(frame) == resolver.current_defer

resolve_block_restores(frame) == frame.save_current_defer

block == block_stack[Len(block_stack)]

\* The stack once the innermost block has pushed a resolved statement of
\* the given kind, written as a statement of kind cst_kind.
pushed(stack, kind, cst_kind) ==
    [stack EXCEPT ![Len(stack)] =
        [@ EXCEPT !.count = @ + 1, !.last = kind, !.cst_last = cst_kind]]

\* Some statement of the innermost block is next.
InBlock ==
    /\ Running
    /\ block_stack # <<>>
    /\ stmt_count < MaxStmts

Others == <<vars_types, vars_templates, vars_imports, vars_module, symbol_heap,
            symbol_tables, sym_inserted>>

\* complete_function up to the first statement of the body.
CompleteFunctionBegin ==
    /\ Running
    /\ block_stack = <<>>
    /\ stmt_count < MaxStmts
    /\ \E return_void \in BOOLEAN :
          resolver' = [resolver EXCEPT
                          !.current_function = [return_void |-> return_void]]
    /\ block_stack' = <<block_enter("function")>>
    /\ last_op' = [op |-> "complete_function_begin"]
    /\ UNCHANGED <<Others, defer_heap, stmt_count, diag>>

\* A statement that resolves to one statement and touches no resolver
\* state: an assignment, an expression, a dump, a variable declaration.
ResolveStmtExpr ==
    /\ InBlock
    /\ block_stack' = pushed(block_stack, "STMT_EXPR", "CST_STMT_EXPR")
    /\ stmt_count' = stmt_count + 1
    /\ last_op' = [op |-> "expr"]
    /\ UNCHANGED <<Others, resolver, defer_heap, diag>>

\* resolve_stmt_decl of a constant or an alias: the declaration resolves to
\* NULL and resolve_block pushes nothing.
ResolveStmtDecl ==
    /\ InBlock
    /\ block_stack' = [block_stack EXCEPT
                          ![Len(block_stack)].cst_last = "CST_STMT_DECL"]
    /\ stmt_count' = stmt_count + 1
    /\ last_op' = [op |-> "decl"]
    /\ UNCHANGED <<Others, resolver, defer_heap, diag>>

ResolveStmtReturn ==
    /\ InBlock
    /\ block_stack' = pushed(block_stack, "STMT_RETURN", "CST_STMT_RETURN")
    /\ stmt_count' = stmt_count + 1
    /\ last_op' = [op |-> "return", defer |-> resolver.current_defer]
    /\ UNCHANGED <<Others, resolver, defer_heap, diag>>

\* resolve_stmt_break and resolve_stmt_continue.
ResolveStmtBreak ==
    /\ InBlock
    /\ \E kind \in {"break", "continue"} :
          IF ~resolver.is_within_loop
          THEN /\ diag' = fatal("statement outside of loop", kind)
               /\ last_op' = [op |-> "outside"]
               /\ UNCHANGED <<block_stack, stmt_count>>
          ELSE /\ block_stack' = pushed(block_stack, "STMT_BREAK", "CST_STMT_BREAK")
               /\ stmt_count' = stmt_count + 1
               /\ last_op' = [op |-> kind, defer |-> resolver.current_defer,
                              loop_defer |-> resolver.current_loop_defer]
               /\ UNCHANGED diag
    /\ UNCHANGED <<Others, resolver, defer_heap>>

\* resolve_stmt_defer, resolve_stmt_if and the two loops up to the first
\* statement of the body (of the first arm, for an if).
ResolveStmtBlock ==
    /\ InBlock
    /\ Len(block_stack) <= MaxBlockDepth
    /\ \E kind \in {"defer", "if", "for"} :
          /\ block_stack' = Append(block_stack, block_enter(kind))
          /\ resolver' = IF kind = "for"
                         THEN [resolver EXCEPT
                                  !.is_within_loop = TRUE,
                                  !.current_loop_defer = resolver.current_defer]
                         ELSE resolver
          /\ last_op' = [op |-> kind]
    /\ stmt_count' = stmt_count + 1
    /\ UNCHANGED <<Others, defer_heap, diag>>

\* The body of a defer is resolved: resolve_block returns and the defer
\* statement is created and made the head of the chain.
ResolveStmtDeferEnd ==
    /\ Running
    /\ block_stack # <<>>
    /\ block.kind = "defer"
    /\ LET prev == resolve_block_restores(block)
           resolved == Len(defer_heap) + 1
           outer == pushed(SubSeq(block_stack, 1, Len(block_stack) - 1),
                           "STMT_DEFER", "CST_STMT_DEFER")
       IN  /\ defer_heap' = Append(defer_heap, [prev |-> prev])
           /\ resolver' = [resolver EXCEPT !.current_defer = resolved]
           /\ block_stack' = [outer EXCEPT ![Len(outer)].declared =
                                               Append(@, resolved)]
    /\ last_op' = [op |-> "defer_end"]
    /\ UNCHANGED <<Others, stmt_count, diag>>

\* An arm of an if is resolved and another arm follows.
ResolveStmtIfElse ==
    /\ Running
    /\ block_stack # <<>>
    /\ block.kind = "if"
    /\ resolver' = [resolver EXCEPT !.current_defer = resolve_block_restores(block)]
    /\ block_stack' = [block_stack EXCEPT ![Len(block_stack)] =
                          [block_enter("else") EXCEPT
                              !.save_current_defer = resolve_block_restores(block),
                              !.entry_head = block.entry_head]]
    /\ last_op' = [op |-> "else"]
    /\ UNCHANGED <<Others, defer_heap, stmt_count, diag>>

\* The last arm of an if is resolved.
ResolveStmtIfEnd ==
    /\ Running
    /\ block_stack # <<>>
    /\ block.kind \in {"if", "else"}
    /\ resolver' = [resolver EXCEPT !.current_defer = resolve_block_restores(block)]
    /\ block_stack' = pushed(SubSeq(block_stack, 1, Len(block_stack) - 1),
                             "STMT_IF", "CST_STMT_IF")
    /\ last_op' = [op |-> "if_end"]
    /\ UNCHANGED <<Others, defer_heap, stmt_count, diag>>

\* The body of a loop is resolved.
ResolveStmtForEnd ==
    /\ Running
    /\ block_stack # <<>>
    /\ block.kind = "for"
    /\ resolver' = [resolver EXCEPT
                       !.current_defer = resolve_block_restores(block),
                       !.is_within_loop = block.save_is_within_loop,
                       !.current_loop_defer = block.save_current_loop_defer]
    /\ block_stack' = pushed(SubSeq(block_stack, 1, Len(block_stack) - 1),
                             "STMT_FOR", "CST_STMT_FOR")
    /\ last_op' = [op |-> "for_end"]
    /\ UNCHANGED <<Others, defer_heap, stmt_count, diag>>

non_void_without_return ==
    [msg |-> "Non-void-returning function does not end with a return statement"]

\* The body is resolved: the rest of complete_function.
CompleteFunctionEnd ==
    /\ Running
    /\ block_stack # <<>>
    /\ block.kind = "function"
    /\ LET func_has_void_return == resolver.current_function.return_void
           non_void_returning_func_does_not_end_with_return ==
               /\ ~func_has_void_return
               /\ (block.count = 0 \/ block.last # "STMT_RETURN")
       IN  /\ diag' = IF non_void_returning_func_does_not_end_with_return
                      THEN non_void_without_return ELSE NoDiag
           /\ last_op' = [op |-> "complete_function",
                          return_void |-> func_has_void_return,
                          cst_last |-> block.cst_last]
    /\ resolver' = [resolver EXCEPT
                       !.current_function = NULL,
                       !.current_defer = resolve_block_restores(block)]
    /\ block_stack' = <<>>
    /\ UNCHANGED <<Others, defer_heap, stmt_count>>

InitFunctions ==
    /\ type_heap = <<>>
    /\ unique_calls = {}
    /\ symbol_heap = <<>>
    /\ symbol_tables = <<>>
    /\ sym_inserted = {}
    /\ last_op = NoOp
    /\ IdleResolver
    /\ diag = NoDiag

NextFunctions ==
    \/ CompleteFunctionBegin
    \/ ResolveStmtExpr
    \/ ResolveStmtDecl
    \/ ResolveStmtReturn
    \/ ResolveStmtBreak
    \/ ResolveStmtBlock
    \/ ResolveStmtDeferEnd
    \/ ResolveStmtIfElse
    \/ ResolveStmtIfEnd
    \/ ResolveStmtForEnd
    \/ CompleteFunctionEnd

SpecFunctions == InitFunctions /\ [][NextFunctions]_vars

(***************************************************************************)
(* C8 as stated: completing a function whose return type is not void is    *)
(* rejected whenever the last statement of its body block is not a return  *)
(* statement, an empty body included, and a void function is never         *)
(* rejected by this check.                                                 *)
(***************************************************************************)
C8_NonVoidEndsWithReturn ==
    last_op.op = "complete_function" =>
        /\ (~last_op.return_void /\ last_op.cst_last # "CST_STMT_RETURN") =>
              diag = non_void_without_return
        /\ last_op.return_void => Running

(***************************************************************************)
(* C9: every resolved return carries the latest defer declared before it   *)
(* in a still-open enclosing block (none if there is none), and every      *)
(* resolved break or continue carries that same defer together with the    *)
(* defer that was the head where its innermost enclosing loop begins.      *)
(***************************************************************************)
\* The innermost loop body among the open blocks.
C9_Loop == CHOOSE i \in DOMAIN block_stack :
              /\ block_stack[i].kind = "for"
              /\ \A j \in DOMAIN block_stack :
                    block_stack[j].kind = "for" => j <= i

C9_DeferCapture ==
    /\ last_op.op = "return" =>
          last_op.defer = lexical_defer_head(block_stack, Len(block_stack))
    /\ last_op.op \in {"break", "continue"} =>
          /\ last_op.defer = lexical_defer_head(block_stack, Len(block_stack))
          /\ last_op.loop_defer = block_stack[C9_Loop].entry_head

\* A break inside a loop that declared a defer of its own, after a defer
\* declared before the loop: the break carries both, and they differ.
C9_Witness ==
    /\ last_op.op = "break"
    /\ last_op.defer # NULL
    /\ last_op.loop_defer # NULL
    /\ last_op.defer # last_op.loop_defer
    /\ defer_heap[last_op.defer].prev = last_op.loop_defer

(***************************************************************************)
(* Integer literals (src/resolve.c resolve_expr_integer and                *)
(* resolve_expr_unary, src/tir.c tir_expr_new_integer).  A CST expression  *)
(* is a record: an integer literal carries the magnitude the lexer read    *)
(* and its suffix, a unary expression its operator token and operand, a    *)
(* grouped expression the parenthesised operand.  Resolving yields the     *)
(* typed expression, or the diagnostic the compiler exits with.            *)
(***************************************************************************)
\* The limits the context holds for the one-byte integer types.
context_limits ==
    [u8_min |-> 0, u8_max |-> 255, s8_min |-> 0 - 128, s8_max |-> 127,
     u16_min |-> 0, u16_max |-> 65535, s16_min |-> 0 - 32768, s16_max |-> 32767,
     \* 2^64 - 1 in the compiler; the largest integer of the model stands for
     \* it, and no index or count of the model comes near either
     usize_min |-> 0, usize_max |-> 2147483647]

type_new_byte == type_new("byte", 1, "TYPE_BYTE")

type_new_s8 == type_new("s8", 1, "TYPE_S8")

\* The data.integer member the constructors of the integer types fill in.
data_integer(type) ==
    CASE type.kind = "TYPE_U8" ->
            [min |-> context_limits.u8_min, max |-> context_limits.u8_max]
      [] type.kind = "TYPE_S8" ->
            [min |-> context_limits.s8_min, max |-> context_limits.s8_max]
      [] type.kind = "TYPE_U16" ->
            [min |-> context_limits.u16_min, max |-> context_limits.u16_max]
      [] type.kind = "TYPE_S16" ->
            [min |-> context_limits.s16_min, max |-> context_limits.s16_max]
      [] type.kind = "TYPE_USIZE" ->
            [min |-> context_limits.usize_min, max |-> context_limits.usize_max]

type_is_integer(type) ==
    type.kind \in {"TYPE_U8", "TYPE_S8", "TYPE_U16", "TYPE_S16", "TYPE_U32",
                   "TYPE_S32", "TYPE_U64", "TYPE_S64", "TYPE_USIZE", "TYPE_SSIZE"}

type_is_uinteger(type) ==
    type.kind \in {"TYPE_U8", "TYPE_U16", "TYPE_U32", "TYPE_U64", "TYPE_USIZE"}

NoExpr == [kind |-> "none"]

out_of_range(what, value, cmp, limit) ==
    [msg |-> "out-of-range " \o what \o " literal", value |-> value,
     cmp |-> cmp, limit |-> limit]

tir_expr_new_integer(type, value) ==
    LET is_byte == type.kind = "TYPE_BYTE"
        is_integer == type_is_integer(type)
    IN  IF is_byte /\ value < context_limits.u8_min
        THEN [expr |-> NoExpr,
              diag |-> out_of_range("byte", value, "<", context_limits.u8_min)]
        ELSE IF is_byte /\ value > context_limits.u8_max
        THEN [expr |-> NoExpr,
              diag |-> out_of_range("byte", value, ">", context_limits.u8_max)]
        ELSE IF is_integer /\ value < data_integer(type).min
        THEN [expr |-> NoExpr,
              diag |-> out_of_range("integer", value, "<", data_integer(type).min)]
        ELSE IF is_integer /\ value > data_integer(type).max
        THEN [expr |-> NoExpr,
              diag |-> out_of_range("integer", value, ">", data_integer(type).max)]
        ELSE [expr |-> [kind |-> "TIR_EXPR_INTEGER", type |-> type,
                        integer |-> value],
              diag |-> NoDiag]

tir_expr_new_unary(type, op, rhs) ==
    [kind |-> "TIR_EXPR_UNARY", type |-> type, op |-> op, rhs |-> rhs]

\* The suffixes of the one-byte types; any other suffix here is one the
\* compiler does not know.
integer_literal_suffix_to_type(suffix) ==
    CASE suffix = "y" -> [type |-> type_new_byte, diag |-> NoDiag]
      [] suffix = "u8" -> [type |-> type_new_u8, diag |-> NoDiag]
      [] suffix = "s8" -> [type |-> type_new_s8, diag |-> NoDiag]
      [] OTHER -> [type |-> NULL,
                   diag |-> fatal("unknown integer literal suffix", suffix)]

resolve_expr_integer(cst) ==
    LET suffix_type == integer_literal_suffix_to_type(cst.suffix)
    IN  IF suffix_type.diag # NoDiag
        THEN [expr |-> NoExpr, diag |-> suffix_type.diag]
        ELSE tir_expr_new_integer(suffix_type.type, cst.value)

\* The sign fold that leaves the literal as the lexer read it.
fold_sign_dropped(op, value) == value

\* The value of a literal with the sign token in front of it folded in.
fold_sign(op, value) == IF op = "TOKEN_DASH" THEN 0 - value ELSE value

invalid_argument(type, op) ==
    [msg |-> "invalid argument in unary expression", type |-> type.name, op |-> op]

resolve_expr_unary_arithmetic(op, uop, rhs) ==
    IF ~type_is_integer(rhs.type)
    THEN [expr |-> NoExpr, diag |-> invalid_argument(rhs.type, op)]
    ELSE [expr |-> tir_expr_new_unary(rhs.type, uop, rhs), diag |-> NoDiag]

RECURSIVE resolve_expr(_)
\* resolve_expr_unary for the operators + and -.
resolve_expr_unary(cst) ==
    LET op == cst.op
        is_sign == op = "TOKEN_PLUS" \/ op = "TOKEN_DASH"
        cst_rhs == cst.rhs
    IN  IF is_sign /\ cst_rhs.kind = "CST_EXPR_INTEGER"
        THEN LET value == fold_sign(op, cst_rhs.value)
                 suffix_type == integer_literal_suffix_to_type(cst_rhs.suffix)
             IN  IF suffix_type.diag # NoDiag
                 THEN [expr |-> NoExpr, diag |-> suffix_type.diag]
                 ELSE tir_expr_new_integer(suffix_type.type, value)
        ELSE LET rhs == resolve_expr(cst_rhs)
             IN  IF rhs.diag # NoDiag THEN rhs
                 ELSE IF op = "TOKEN_PLUS"
                 THEN resolve_expr_unary_arithmetic(op, "UOP_POS", rhs.expr)
                 ELSE IF type_is_uinteger(rhs.expr.type)
                 THEN [expr |-> NoExpr, diag |-> invalid_argument(rhs.expr.type, op)]
                 ELSE resolve_expr_unary_arithmetic(op, "UOP_NEG", rhs.expr)

resolve_expr(cst) ==
    CASE cst.kind = "CST_EXPR_INTEGER" -> resolve_expr_integer(cst)
      [] cst.kind = "CST_EXPR_GROUPED" -> resolve_expr(cst.expr)
      [] cst.kind = "CST_EXPR_UNARY" -> resolve_expr_unary(cst)

\* The literals of the programs resolved: magnitudes about the limits of the
\* one-byte types, each with a suffix.
LiteralValues == {0, 1, 2, 126, 127, 128, 129, 254, 255, 256, 299, 300}

LiteralSuffixes == {"y", "u8", "s8", "q"}

cst_integer(value, suffix) ==
    [kind |-> "CST_EXPR_INTEGER", value |-> value, suffix |-> suffix]

cst_grouped(expr) == [kind |-> "CST_EXPR_GROUPED", expr |-> expr]

cst_unary(op, rhs) == [kind |-> "CST_EXPR_UNARY", op |-> op, rhs |-> rhs]

Resolved(cst) ==
    LET resolved == resolve_expr(cst)
    IN  /\ last_op' = [op |-> "resolve_expr", cst |-> cst, expr |-> resolved.expr]
        /\ diag' = resolved.diag
        /\ UNCHANGED <<vars_types, vars_resolver, symbol_heap, symbol_tables,
                       sym_inserted>>

\* An expression statement that is an integer literal.
ResolveExprInteger ==
    /\ Running
    /\ \E value \in LiteralValues, suffix \in LiteralSuffixes :
          Resolved(cst_integer(value, suffix))

\* An expression statement that is + or - applied to an integer literal, or
\* to an integer literal in parentheses.
ResolveExprUnary ==
    /\ Running
    /\ \E op \in {"TOKEN_PLUS", "TOKEN_DASH"}, value \in LiteralValues,
          suffix \in LiteralSuffixes, grouped \in BOOLEAN :
          Resolved(cst_unary(op, IF grouped
                                 THEN cst_grouped(cst_integer(value, suffix))
                                 ELSE cst_integer(value, suffix)))

InitLiterals ==
    /\ type_heap = <<>>
    /\ unique_calls = {}
    /\ symbol_heap = <<>>
    /\ symbol_tables = <<>>
    /\ sym_inserted = {}
    /\ last_op = NoOp
    /\ IdleResolver
    /\ diag = NoDiag

NextLiterals ==
    \/ ResolveExprInteger
    \/ ResolveExprUnary

SpecLiterals == InitLiterals /\ [][NextLiterals]_vars

\* The literal a resolved expression was written as, when it is a literal
\* with at most a sign directly in front of it.
C10_IsLiteral ==
    /\ last_op.op = "resolve_expr"
    /\ \/ last_op.cst.kind = "CST_EXPR_INTEGER"
       \/ /\ last_op.cst.kind = "CST_EXPR_UNARY"
          /\ last_op.cst.rhs.kind = "CST_EXPR_INTEGER"

C10_Literal ==
    IF last_op.cst.kind = "CST_EXPR_INTEGER" THEN last_op.cst ELSE last_op.cst.rhs

C10_Folded ==
    IF last_op.cst.kind = "CST_EXPR_UNARY" /\ last_op.cst.op = "TOKEN_DASH"
    THEN 0 - C10_Literal.value
    ELSE C10_Literal.value

C10_Range ==
    IF C10_Literal.suffix = "s8" THEN (0 - 128) .. 127 ELSE 0 .. 255

(***************************************************************************)
(* C10: an integer literal with a suffix of a one-byte type, at most one   *)
(* + or - directly in front of it, is rejected with an out-of-range        *)
(* diagnostic when its value with the sign folded in lies outside the      *)
(* range of the suffix type, and otherwise is accepted as an integer       *)
(* expression of that type holding the folded value.                       *)
(***************************************************************************)
C10_LiteralRange ==
    (C10_IsLiteral /\ C10_Literal.suffix \in {"y", "u8", "s8"}) =>
        IF C10_Folded \in C10_Range
        THEN /\ diag = NoDiag
             /\ last_op.expr.kind = "TIR_EXPR_INTEGER"
             /\ last_op.expr.integer = C10_Folded
             /\ last_op.expr.type.name =
                   (IF C10_Literal.suffix = "y" THEN "byte" ELSE C10_Literal.suffix)
        ELSE /\ diag.msg \in {"out-of-range integer literal",
                              "out-of-range byte literal"}
             /\ diag.value = C10_Folded
             /\ last_op.expr = NoExpr

\* -128s8 has been resolved and accepted with the value -128.
C10_Witness ==
    /\ C10_IsLiteral
    /\ last_op.cst = cst_unary("TOKEN_DASH", cst_integer(128, "s8"))
    /\ diag = NoDiag
    /\ last_op.expr.integer = 0 - 128

(***************************************************************************)
(* The compile-time evaluator (src/eval.c) and values (src/tir.c).  A      *)
(* value is a record with its type and the member of the data union its    *)
(* type selects.  Evaluating yields the value, or the diagnostic the       *)
(* compiler exits with.  The assertions of the source abort a build that   *)
(* compiles them in and are no-ops in a build with NDEBUG defined; ndebug  *)
(* says which build is evaluating.                                         *)
(***************************************************************************)
NoValue == [type |-> NULL]

type_new_bool == type_new("bool", 1, "TYPE_BOOL")

type_can_compare_equality(type) ==
    \/ type.kind = "TYPE_BOOL"
    \/ type.kind = "TYPE_BYTE"
    \/ type_is_integer(type)
    \/ type.kind = "TYPE_FUNCTION"
    \/ type.kind = "TYPE_POINTER"

value_new_boolean(boolean) ==
    [value |-> [type |-> type_new_bool, boolean |-> boolean], diag |-> NoDiag]

value_new_integer(type, integer, ndebug) ==
    IF ~ndebug /\ (integer < data_integer(type).min \/ integer > data_integer(type).max)
    THEN [value |-> NoValue,
          diag |-> [msg |-> "assertion failed", function |-> "value_new_integer"]]
    ELSE [value |-> [type |-> type, integer |-> integer], diag |-> NoDiag]

\* value_eq; eq is NULL where the function does not return.  With the
\* unreachable marks compiled out control falls from the pointer case
\* through to the return after the switch.
value_eq(lhs, rhs, ndebug) ==
    LET kind == lhs.type.kind
    IN  CASE kind = "TYPE_VOID" -> [eq |-> TRUE, diag |-> NoDiag]
          [] kind = "TYPE_BOOL" -> [eq |-> lhs.boolean = rhs.boolean, diag |-> NoDiag]
          [] kind = "TYPE_BYTE" -> [eq |-> lhs.byte = rhs.byte, diag |-> NoDiag]
          [] type_is_integer(lhs.type) ->
                [eq |-> lhs.integer = rhs.integer, diag |-> NoDiag]
          [] kind = "TYPE_FUNCTION" ->
                [eq |-> lhs.function = rhs.function, diag |-> NoDiag]
          [] OTHER ->
                IF ndebug THEN [eq |-> FALSE, diag |-> NoDiag]
                ELSE [eq |-> NULL,
                      diag |-> [msg |-> "unreachable", function |-> "value_eq"]]

integer_is_out_of_range(type, res) ==
    res < data_integer(type).min \/ res > data_integer(type).max

type_new_u16 == type_new("u16", 2, "TYPE_U16")

type_new_usize == type_new("usize", 8, "TYPE_USIZE")

type_new_s16 == type_new("s16", 2, "TYPE_S16")

type_is_sinteger(type) ==
    type.kind \in {"TYPE_S8", "TYPE_S16", "TYPE_S32", "TYPE_S64", "TYPE_SSIZE"}

\* The types of the values of the evaluator, by address: the base of an
\* array, pointer or slice type is one of these.
ValueTypes ==
    LET scalars == <<type_new_void, type_new_u8, type_new_bool, type_new_byte,
                     type_new_s8, type_new_u16, type_new_s16>>
    IN  scalars \o <<type_new_array(scalars, 0, 2), type_new_array(scalars, 2, 2),
                     type_new_array(scalars, 3, 2), type_new_array(scalars, 0, 6),
                     type_new_array(scalars, 2, 6), type_new_array(scalars, 3, 6)>>

RECURSIVE pow2(_)
pow2(n) == IF n = 0 THEN 1 ELSE 2 * pow2(n - 1)

\* bigint_to_bitarr: the bits of the integer, least significant first, in
\* two's complement for a negative one; failed when it does not fit.
bigint_to_bitarr(bit_count, integer) ==
    LET unsigned == IF integer < 0 THEN integer + pow2(bit_count) ELSE integer
    IN  IF integer >= pow2(bit_count) \/ integer < 0 - pow2(bit_count - 1)
        THEN [bits |-> <<>>, failed |-> TRUE]
        ELSE [bits |-> [i \in 1 .. bit_count |-> (unsigned \div pow2(i - 1)) % 2],
              failed |-> FALSE]

\* bitarr_to_bigint: the integer of the bits, the top bit counting as the
\* sign where is_signed.
bitarr_to_bigint(bits, is_signed) ==
    LET RECURSIVE magnitude(_)
        magnitude(i) == IF i > Len(bits) THEN 0
                        ELSE bits[i] * pow2(i - 1) + magnitude(i + 1)
    IN  IF is_signed /\ bits[Len(bits)] = 1
        THEN magnitude(1) - pow2(Len(bits))
        ELSE magnitude(1)

\* The byte array that takes the bits most significant byte first.
bitarr_to_bytes_reversed(bits) ==
    [k \in 1 .. Len(bits) \div 8 |->
        LET RECURSIVE byte(_)
            byte(j) == IF j > 7 THEN 0
                       ELSE bits[Len(bits) - 8 * k + j + 1] * pow2(j) + byte(j + 1)
        IN  byte(0)]

\* The loop of value_to_new_bytes over the bits: bit i goes to bit i % 8
\* of byte i / 8.
bitarr_to_bytes(bits) ==
    [k \in 1 .. Len(bits) \div 8 |->
        LET RECURSIVE byte(_)
            byte(j) == IF j > 7 THEN 0
                       ELSE bits[8 * (k - 1) + j + 1] * pow2(j) + byte(j + 1)
        IN  byte(0)]

unreachable(function) == [msg |-> "unreachable", function |-> function]

\* value_to_new_bytes: the bytes, or the diagnostic where it does not
\* return.
RECURSIVE value_to_new_bytes(_)
value_to_new_bytes(value) ==
    LET kind == value.type.kind
        size == value.type.size
    IN  CASE kind = "TYPE_VOID" -> [bytes |-> <<>>, diag |-> NoDiag]
          [] kind = "TYPE_BOOL" ->
                [bytes |-> <<IF value.boolean THEN 1 ELSE 0>>, diag |-> NoDiag]
          [] kind = "TYPE_BYTE" -> [bytes |-> <<value.byte>>, diag |-> NoDiag]
          [] type_is_integer(value.type) ->
                LET bits == bigint_to_bitarr(size * 8, value.integer)
                IN  IF bits.failed
                    THEN [bytes |-> <<>>, diag |-> unreachable("value_to_new_bytes")]
                    ELSE [bytes |-> bitarr_to_bytes(bits.bits), diag |-> NoDiag]
          [] kind = "TYPE_ARRAY" ->
                LET element_size == ValueTypes[value.type.base].size
                    element_bytes == [i \in DOMAIN value.elements |->
                                         value_to_new_bytes(value.elements[i])]
                    failures == {i \in DOMAIN value.elements :
                                    element_bytes[i].diag # NoDiag}
                IN  IF failures # {}
                    THEN element_bytes[CHOOSE i \in failures :
                                          \A j \in failures : i <= j]
                    ELSE [bytes |->
                              [k \in 1 .. size |->
                                  IF (k - 1) \div element_size < Len(value.elements)
                                  THEN element_bytes[(k - 1) \div element_size + 1]
                                          .bytes[((k - 1) % element_size) + 1]
                                  ELSE 0],
                          diag |-> NoDiag]
          [] OTHER -> [bytes |-> <<>>, diag |-> unreachable("value_to_new_bytes")]

\* value_new_array: the assertion ties the number of elements to the type.
value_new_array(type, elements, ndebug) ==
    IF ~ndebug /\ type.count # Len(elements)
    THEN [value |-> NoValue,
          diag |-> [msg |-> "assertion failed", function |-> "value_new_array"]]
    ELSE [value |-> [type |-> type, elements |-> elements], diag |-> NoDiag]

\* The extension bit of a cast that always extends with zero.
cast_extend_zero(from_type, bytes) == 0

\* The zero-extension or sign-extension bit of a cast to an integer type.
cast_extend(from_type, bytes) ==
    IF type_is_sinteger(from_type) /\ bytes[Len(bytes)] >= 128 THEN 1 ELSE 0

\* The TIR_EXPR_CAST case of eval_rvalue, on the evaluated operand.
eval_rvalue_cast(type, from, ndebug) ==
    LET failed(diagnostic) == [value |-> NoValue, diag |-> diagnostic]
        bytes == value_to_new_bytes(from)
    IN  IF from.type.kind = "TYPE_POINTER"
        THEN failed(fatal("constant expression contains cast from pointer type",
                          from.type.name))
        ELSE IF type.kind = "TYPE_POINTER"
        THEN failed(fatal("constant expression contains cast to pointer type",
                          type.name))
        ELSE IF bytes.diag # NoDiag THEN failed(bytes.diag)
        ELSE CASE type.kind = "TYPE_BOOL" ->
                     value_new_boolean(\E i \in DOMAIN bytes.bytes : bytes.bytes[i] # 0)
               [] type.kind = "TYPE_BYTE" ->
                     IF ~ndebug /\ Len(bytes.bytes) < 1
                     THEN failed([msg |-> "assertion failed",
                                  function |-> "eval_rvalue"])
                     ELSE [value |-> [type |-> type_new_byte, byte |-> bytes.bytes[1]],
                           diag |-> NoDiag]
               [] type_is_integer(type) ->
                     LET bytes_count == Len(bytes.bytes)
                         extend == cast_extend(from.type, bytes.bytes)
                         bits == [i \in 1 .. type.size * 8 |->
                                     IF i - 1 >= bytes_count * 8 THEN extend
                                     ELSE (bytes.bytes[(i - 1) \div 8 + 1]
                                             \div pow2((i - 1) % 8)) % 2]
                     IN  value_new_integer(type,
                             bitarr_to_bigint(bits, type_is_sinteger(type)), ndebug)
               [] OTHER -> failed(unreachable("eval_rvalue"))

\* value_new_slice: the assertions on the count and on the base types.
value_new_slice(type, pointer, count, ndebug) ==
    IF ~ndebug /\ (count.integer < 0 \/ type.base # pointer.type.base)
    THEN [value |-> NoValue,
          diag |-> [msg |-> "assertion failed", function |-> "value_new_slice"]]
    ELSE [value |-> [type |-> type, pointer |-> pointer, count |-> count],
          diag |-> NoDiag]

\* eval_lvalue of an identifier: a pointer to the symbol's type at the
\* symbol's address.
eval_lvalue(expr) ==
    IF expr.identifier.address.kind # "ADDRESS_STATIC"
    THEN [value |-> NoValue,
          diag |-> fatal("addressof operator applied to non-static object",
                         expr.identifier.name)]
    ELSE [value |-> [type |-> type_new_pointer(ValueTypes,
                                 CHOOSE type \in DOMAIN ValueTypes :
                                    ValueTypes[type] = expr.identifier.type),
                     pointer |-> expr.identifier.address],
          diag |-> NoDiag]

index_out_of_bounds(count, received) ==
    [msg |-> "index out-of-bounds", count |-> count, received |-> received]

\* The test of the slice's first index against the array's count.
slice_begin_out_of_bounds(begin_uz, count) == begin_uz >= count

\* The TIR_EXPR_SLICE case of eval_rvalue over the values of its operands.
eval_rvalue_slice(expr, lhs, begin, end, ndebug) ==
    LET failed(diagnostic) == [value |-> NoValue, diag |-> diagnostic]
        index_out_of_range(received) ==
            [msg |-> "index out-of-range", received |-> received]
        count == lhs.type.count
        lvalue == eval_lvalue(expr.lhs)
        pointer == [type |-> type_new_pointer(ValueTypes, expr.type.base),
                    pointer |-> [lvalue.value.pointer EXCEPT
                                    !.offset = @ + begin.integer
                                                     * ValueTypes[expr.type.base].size]]
        count_value == value_new_integer(type_new_usize, end.integer - begin.integer,
                                         ndebug)
    IN  IF begin.integer < 0 \/ begin.integer > context_limits.usize_max
        THEN failed(index_out_of_range(begin.integer))
        ELSE IF end.integer < 0 \/ end.integer > context_limits.usize_max
        THEN failed(index_out_of_range(end.integer))
        ELSE IF lhs.type.kind = "TYPE_ARRAY"
        THEN IF slice_begin_out_of_bounds(begin.integer, count)
             THEN failed(index_out_of_bounds(count, begin.integer))
             ELSE IF end.integer > count
             THEN failed(index_out_of_bounds(count, end.integer))
             ELSE IF lvalue.diag # NoDiag THEN failed(lvalue.diag)
             ELSE IF count_value.diag # NoDiag THEN failed(count_value.diag)
             ELSE value_new_slice(expr.type, pointer, count_value.value, ndebug)
        ELSE IF lhs.type.kind = "TYPE_SLICE"
        THEN failed(fatal("slicing not supported in compile-time expressions",
                          lhs.type.name))
        ELSE failed(unreachable("eval_rvalue"))

\* value_lt and value_gt; lt is NULL where the function does not return.
\* With the unreachable marks compiled out control falls through to the
\* return after the switch.
value_cmp(lhs, rhs, ndebug, function, less(_, _)) ==
    LET kind == lhs.type.kind
        number(b) == IF b THEN 1 ELSE 0
    IN  CASE kind = "TYPE_VOID" -> [lt |-> TRUE, diag |-> NoDiag]
          [] kind = "TYPE_BOOL" ->
                [lt |-> less(number(lhs.boolean), number(rhs.boolean)), diag |-> NoDiag]
          [] kind = "TYPE_BYTE" -> [lt |-> less(lhs.byte, rhs.byte), diag |-> NoDiag]
          [] type_is_integer(lhs.type) ->
                [lt |-> less(lhs.integer, rhs.integer), diag |-> NoDiag]
          [] OTHER ->
                IF ndebug THEN [lt |-> FALSE, diag |-> NoDiag]
                ELSE [lt |-> NULL, diag |-> unreachable(function)]

value_lt(lhs, rhs, ndebug) ==
    LET less(a, b) == a < b
    IN  value_cmp(lhs, rhs, ndebug, "value_lt", less)

value_gt(lhs, rhs, ndebug) ==
    LET greater(a, b) == a > b
    IN  value_cmp(lhs, rhs, ndebug, "value_gt", greater)

\* The BOP_BITOR, BOP_BITXOR and BOP_BITAND cases of eval_rvalue: bit is
\* the operation on one bit of each operand.
eval_rvalue_bitwise(lhs, rhs, ndebug, bit(_, _)) ==
    LET type == lhs.type
        bit_count == type.size * 8
        lhs_bits == bigint_to_bitarr(bit_count, lhs.integer)
        rhs_bits == bigint_to_bitarr(bit_count, rhs.integer)
        res_bits == [i \in 1 .. bit_count |-> bit(lhs_bits.bits[i], rhs_bits.bits[i])]
        byte_bits(byte) == [i \in 1 .. 8 |-> (byte \div pow2(i - 1)) % 2]
    IN  IF type.kind = "TYPE_BOOL"
        THEN value_new_boolean(bit(IF lhs.boolean THEN 1 ELSE 0,
                                   IF rhs.boolean THEN 1 ELSE 0) = 1)
        ELSE IF type.kind = "TYPE_BYTE"
        THEN [value |-> [type |-> type_new_byte,
                         byte |-> bitarr_to_bigint(
                                      [i \in 1 .. 8 |-> bit(byte_bits(lhs.byte)[i],
                                                            byte_bits(rhs.byte)[i])],
                                      FALSE)],
              diag |-> NoDiag]
        ELSE IF lhs_bits.failed \/ rhs_bits.failed
        THEN [value |-> NoValue, diag |-> unreachable("eval_rvalue")]
        ELSE value_new_integer(type, bitarr_to_bigint(res_bits, type_is_sinteger(type)),
                               ndebug)

RECURSIVE eval_rvalue(_, _)
eval_rvalue(expr, ndebug) ==
    LET failed(diagnostic) == [value |-> NoValue, diag |-> diagnostic]
        abs(i) == IF i < 0 THEN 0 - i ELSE i
        \* bigint_divrem: the quotient truncated towards zero
        divrem(a, b) == IF (a < 0) = (b < 0) THEN abs(a) \div abs(b)
                        ELSE 0 - (abs(a) \div abs(b))
        overflow(a, op, b, r) ==
            [msg |-> "arithmetic operation produces out-of-range result",
             lhs |-> a, op |-> op, rhs |-> b, res |-> r]
        arithmetic(a, op, b, r) ==
            IF integer_is_out_of_range(expr.type, r)
            THEN failed(overflow(a, op, b, r))
            ELSE value_new_integer(expr.type, r, ndebug)
        binary(lhs, rhs) ==
            CASE expr.op = "BOP_OR" -> value_new_boolean(lhs.boolean \/ rhs.boolean)
              [] expr.op = "BOP_AND" -> value_new_boolean(lhs.boolean /\ rhs.boolean)
              [] expr.op \in {"BOP_EQ", "BOP_NE"} ->
                    LET eq == value_eq(lhs, rhs, ndebug)
                    IN  IF eq.diag # NoDiag THEN failed(eq.diag)
                        ELSE value_new_boolean(IF expr.op = "BOP_EQ"
                                               THEN eq.eq ELSE ~eq.eq)
              [] expr.op \in {"BOP_LE", "BOP_LT"} ->
                    LET lt == value_lt(lhs, rhs, ndebug)
                        eq == value_eq(lhs, rhs, ndebug)
                    IN  IF lt.diag # NoDiag THEN failed(lt.diag)
                        ELSE IF expr.op = "BOP_LT" \/ lt.lt THEN value_new_boolean(lt.lt)
                        ELSE IF eq.diag # NoDiag THEN failed(eq.diag)
                        ELSE value_new_boolean(eq.eq)
              [] expr.op \in {"BOP_GE", "BOP_GT"} ->
                    LET gt == value_gt(lhs, rhs, ndebug)
                        eq == value_eq(lhs, rhs, ndebug)
                    IN  IF gt.diag # NoDiag THEN failed(gt.diag)
                        ELSE IF expr.op = "BOP_GT" \/ gt.lt THEN value_new_boolean(gt.lt)
                        ELSE IF eq.diag # NoDiag THEN failed(eq.diag)
                        ELSE value_new_boolean(eq.eq)
              [] expr.op = "BOP_BITOR" ->
                    LET bit_or(a, b) == IF a = 1 \/ b = 1 THEN 1 ELSE 0
                    IN  eval_rvalue_bitwise(lhs, rhs, ndebug, bit_or)
              [] expr.op = "BOP_BITXOR" ->
                    LET bit_xor(a, b) == IF a # b THEN 1 ELSE 0
                    IN  eval_rvalue_bitwise(lhs, rhs, ndebug, bit_xor)
              [] expr.op = "BOP_BITAND" ->
                    LET bit_and(a, b) == IF a = 1 /\ b = 1 THEN 1 ELSE 0
                    IN  eval_rvalue_bitwise(lhs, rhs, ndebug, bit_and)
              [] expr.op = "BOP_ADD" ->
                    arithmetic(lhs.integer, "+", rhs.integer, lhs.integer + rhs.integer)
              [] expr.op = "BOP_SUB" ->
                    arithmetic(lhs.integer, "-", rhs.integer, lhs.integer - rhs.integer)
              [] expr.op = "BOP_MUL" ->
                    arithmetic(lhs.integer, "*", rhs.integer, lhs.integer * rhs.integer)
              [] expr.op = "BOP_DIV" ->
                    IF rhs.integer = 0
                    THEN failed([msg |-> "divide by zero",
                                 lhs |-> lhs.integer, rhs |-> rhs.integer])
                    ELSE value_new_integer(expr.type,
                                           divrem(lhs.integer, rhs.integer), ndebug)
    IN  CASE expr.kind = "TIR_EXPR_IDENTIFIER" ->
                IF expr.identifier.kind \in {"SYMBOL_CONSTANT", "SYMBOL_FUNCTION"}
                THEN [value |-> expr.identifier.value, diag |-> NoDiag]
                ELSE failed(fatal("identifier is not a constant", expr.identifier.name))
          [] expr.kind = "TIR_EXPR_BOOLEAN" -> value_new_boolean(expr.boolean)
          [] expr.kind = "TIR_EXPR_INTEGER" ->
                IF expr.type.kind = "TYPE_BYTE"
                THEN [value |-> [type |-> type_new_byte, byte |-> expr.integer % 256],
                      diag |-> NoDiag]
                ELSE value_new_integer(expr.type, expr.integer, ndebug)
          [] expr.kind = "TIR_EXPR_UNARY" /\ expr.op = "UOP_ADDRESSOF" ->
                \* eval_lvalue of an identifier
                IF expr.rhs.identifier.address.kind # "ADDRESS_STATIC"
                THEN failed(fatal("addressof operator applied to non-static object",
                                  expr.rhs.identifier.name))
                ELSE [value |-> [type |-> expr.type,
                                 pointer |-> expr.rhs.identifier.address],
                      diag |-> NoDiag]
          [] expr.kind = "TIR_EXPR_LITERAL_ARRAY" ->
                LET evaled_elements ==
                        [i \in DOMAIN expr.elements |->
                            eval_rvalue(expr.elements[i], ndebug)]
                    evaled_ellipsis == eval_rvalue(expr.ellipsis, ndebug)
                    first == Len(expr.elements)
                    count == expr.type.count
                    failures == {i \in DOMAIN expr.elements :
                                    evaled_elements[i].diag # NoDiag}
                    values == [i \in DOMAIN expr.elements |-> evaled_elements[i].value]
                IN  IF failures # {}
                    THEN evaled_elements[CHOOSE i \in failures :
                                            \A j \in failures : i <= j]
                    ELSE IF expr.ellipsis = NoExpr
                    THEN value_new_array(expr.type, values, ndebug)
                    ELSE IF evaled_ellipsis.diag # NoDiag THEN evaled_ellipsis
                    ELSE value_new_array(
                             expr.type,
                             values \o [i \in 1 .. (IF count > first
                                                     THEN count - first ELSE 0) |->
                                           evaled_ellipsis.value],
                             ndebug)
          [] expr.kind = "TIR_EXPR_SLICE" ->
                LET lhs == eval_rvalue(expr.lhs, ndebug)
                    begin == eval_rvalue(expr.begin, ndebug)
                    end == eval_rvalue(expr.end, ndebug)
                IN  IF lhs.diag # NoDiag THEN lhs
                    ELSE IF begin.diag # NoDiag THEN begin
                    ELSE IF end.diag # NoDiag THEN end
                    ELSE eval_rvalue_slice(expr, lhs.value, begin.value, end.value,
                                           ndebug)
          [] expr.kind = "TIR_EXPR_CAST" ->
                LET from == eval_rvalue(expr.expr, ndebug)
                IN  IF from.diag # NoDiag THEN from
                    ELSE eval_rvalue_cast(expr.type, from.value, ndebug)
          [] expr.kind = "TIR_EXPR_BINARY" ->
                LET lhs == eval_rvalue(expr.lhs, ndebug)
                IN  IF lhs.diag # NoDiag THEN lhs
                    ELSE LET rhs == eval_rvalue(expr.rhs, ndebug)
                         IN  IF rhs.diag # NoDiag THEN rhs
                             ELSE binary(lhs.value, rhs.value)

\* The constant expressions evaluated: the resolver gives both operands of
\* a binary expression the same type.
EvalExprs ==
    LET integer(type, i) == [kind |-> "TIR_EXPR_INTEGER", type |-> type, integer |-> i]
        boolean(b) == [kind |-> "TIR_EXPR_BOOLEAN", type |-> type_new_bool, boolean |-> b]
        binary(op, type, lhs, rhs) ==
            [kind |-> "TIR_EXPR_BINARY", type |-> type, op |-> op,
             lhs |-> lhs, rhs |-> rhs]
        func_type == [type_new("func() void", 8, "TYPE_FUNCTION")
                         EXCEPT !.return_type = 1]
        func(name) ==
            [kind |-> "TIR_EXPR_IDENTIFIER", type |-> func_type,
             identifier |-> [kind |-> "SYMBOL_FUNCTION", name |-> name,
                             value |-> [type |-> func_type, function |-> name]]]
        pointer_type == [type_new("*u8", 8, "TYPE_POINTER") EXCEPT !.base = 2]
        addressof(name, address_kind) ==
            [kind |-> "TIR_EXPR_UNARY", type |-> pointer_type, op |-> "UOP_ADDRESSOF",
             rhs |-> [kind |-> "TIR_EXPR_IDENTIFIER", type |-> type_new_u8,
                      identifier |-> [kind |-> "SYMBOL_VARIABLE", name |-> name,
                                      address |-> [kind |-> address_kind,
                                                   name |-> name, offset |-> 0]]]]
        operands(type) ==
            CASE type.kind = "TYPE_S8" ->
                    {integer(type, i) : i \in {0 - 128, 0 - 1, 0, 1, 2, 127}}
              [] type.kind = "TYPE_U8" ->
                    {integer(type, i) : i \in {0, 1, 2, 128, 255}}
              [] type.kind = "TYPE_BYTE" -> {integer(type, i) : i \in {0, 255}}
              [] type.kind = "TYPE_BOOL" -> {boolean(b) : b \in BOOLEAN}
              [] type.kind = "TYPE_FUNCTION" -> {func("f"), func("g")}
              [] type.kind = "TYPE_POINTER" ->
                    {addressof("x", "ADDRESS_STATIC"), addressof("y", "ADDRESS_STATIC"),
                     addressof("l", "ADDRESS_LOCAL")}
        types == {type_new_s8, type_new_u8, type_new_byte, type_new_bool,
                  func_type, pointer_type}
        arithmetics ==
            {binary(op, type, lhs, rhs) :
                op \in {"BOP_ADD", "BOP_SUB", "BOP_MUL", "BOP_DIV"},
                type \in {t \in types : type_is_integer(t)},
                lhs \in operands(type_new_s8) \cup operands(type_new_u8),
                rhs \in operands(type_new_s8) \cup operands(type_new_u8)}
        equalities ==
            UNION {{binary(op, type_new_bool, lhs, rhs) :
                        op \in {"BOP_EQ", "BOP_NE"},
                        lhs \in operands(type), rhs \in operands(type)} :
                   type \in {t \in types : type_can_compare_equality(t)}}
        quotients ==
            {binary("BOP_EQ", type_new_bool,
                    binary("BOP_DIV", type_new_u8, integer(type_new_u8, 2), rhs),
                    integer(type_new_u8, 1)) : rhs \in operands(type_new_u8)}
    IN  {e \in arithmetics : e.lhs.type = e.type /\ e.rhs.type = e.type}
          \cup equalities
          \cup {binary(op, type_new_bool, lhs, rhs) :
                   op \in {"BOP_OR", "BOP_AND"},
                   lhs \in operands(type_new_bool),
                   rhs \in operands(type_new_bool) \cup quotients}

\* A constant expression is evaluated.
EvalRvalue ==
    /\ Running
    /\ \E expr \in EvalExprs, ndebug \in BOOLEAN :
          LET res == eval_rvalue(expr, ndebug)
          IN  /\ last_op' = [op |-> "eval_rvalue", expr |-> expr,
                             ndebug |-> ndebug, value |-> res.value]
              /\ diag' = res.diag
    /\ UNCHANGED <<vars_types, vars_resolver, symbol_heap, symbol_tables,
                   sym_inserted>>

NextEval == EvalRvalue

SpecEval == InitLiterals /\ [][NextEval]_vars

\* The last evaluation was of an arithmetic expression on two literals.
C11_IsArithmetic ==
    /\ last_op.op = "eval_rvalue"
    /\ last_op.expr.op \in {"BOP_ADD", "BOP_SUB", "BOP_MUL", "BOP_DIV"}

C11_Exact ==
    LET a == last_op.expr.lhs.integer
        b == last_op.expr.rhs.integer
        magnitude(i) == IF i < 0 THEN 0 - i ELSE i
    IN  CASE last_op.expr.op = "BOP_ADD" -> a + b
          [] last_op.expr.op = "BOP_SUB" -> a - b
          [] last_op.expr.op = "BOP_MUL" -> a * b
          [] last_op.expr.op = "BOP_DIV" ->
                IF (a < 0) # (b < 0) THEN 0 - (magnitude(a) \div magnitude(b))
                ELSE magnitude(a) \div magnitude(b)

C11_Range ==
    IF last_op.expr.type.kind = "TYPE_S8" THEN (0 - 128) .. 127 ELSE 0 .. 255

(***************************************************************************)
(* C11 as stated: evaluating a+b, a-b, a*b or a/b on operands of a typed   *)
(* integer type gives a divide-by-zero error for a division by 0, else the *)
(* exact result (the truncated quotient for a division) when it lies in    *)
(* the range of the type and a range error when it does not; no integer    *)
(* value outside the range of its type is built.                           *)
(***************************************************************************)
C11_ArithmeticInRange ==
    C11_IsArithmetic =>
        IF last_op.expr.op = "BOP_DIV" /\ last_op.expr.rhs.integer = 0
        THEN diag.msg = "divide by zero"
        ELSE IF C11_Exact \in C11_Range
        THEN diag = NoDiag /\ last_op.value.integer = C11_Exact
        ELSE diag.msg = "arithmetic operation produces out-of-range result"

(***************************************************************************)
(* C12 as stated: evaluating `lhs or rhs` with lhs true, or `lhs and rhs`  *)
(* with lhs false, gives the value of lhs and raises no error, whatever    *)
(* evaluating rhs would raise.                                             *)
(***************************************************************************)
C12_ShortCircuit ==
    (/\ last_op.op = "eval_rvalue"
     /\ last_op.expr.op \in {"BOP_OR", "BOP_AND"}
     /\ last_op.expr.lhs.boolean = (last_op.expr.op = "BOP_OR")) =>
        /\ diag = NoDiag
        /\ last_op.value.boolean = last_op.expr.lhs.boolean

(***************************************************************************)
(* C13 as stated: evaluating == or != on two operands of a type that       *)
(* type_can_compare_equality admits, whose evaluation raised nothing,      *)
(* returns a boolean and reaches no unreachable mark or failed assertion.  *)
(***************************************************************************)
C13_EqualityTotal ==
    (/\ last_op.op = "eval_rvalue"
     /\ last_op.expr.op \in {"BOP_EQ", "BOP_NE"}
     /\ type_can_compare_equality(last_op.expr.lhs.type)
     /\ eval_rvalue(last_op.expr.lhs, last_op.ndebug).diag = NoDiag
     /\ eval_rvalue(last_op.expr.rhs, last_op.ndebug).diag = NoDiag) =>
        /\ diag = NoDiag
        /\ last_op.value.type.kind = "TYPE_BOOL"

(***************************************************************************)
(* resolve(module) (src/resolve.c).  resolve_state holds the module being  *)
(* resolved (the number of its imports, whether it declares a namespace    *)
(* and the kinds of its ordered top-level declarations), how far each of   *)
(* the loops of resolve() has come, and the history of the calls made.     *)
(* A declaration other than a struct may request a function template       *)
(* instance, whose declaration is resolved on the spot.                    *)
(***************************************************************************)
MaxImports == 2
MaxDecls == 3
MaxInstances == 1

DeclKinds == {"CST_DECL_STRUCT", "CST_DECL_STRUCT template", "CST_DECL_FUNCTION",
              "CST_DECL_VARIABLE"}

\* The loop of resolve() that takes every function as soon as it is queued.
resolve_loop_eager(module, at, queued) ==
    IF at.completed < queued THEN "complete_function"
    ELSE IF at.imported < module.imports THEN "resolve_import"
    ELSE IF at.predeclared < Len(module.ordered) THEN "resolve_decl_struct"
    ELSE IF at.declared < Len(module.ordered) THEN "resolve_decl"
    ELSE "resolver_del"

\* The loop of resolve() whose last loop stops one function short.
resolve_loop_short(module, at, queued) ==
    IF at.imported < module.imports THEN "resolve_import"
    ELSE IF at.predeclared < Len(module.ordered) THEN "resolve_decl_struct"
    ELSE IF at.declared < Len(module.ordered) THEN "resolve_decl"
    ELSE IF at.completed + 1 < queued THEN "complete_function"
    ELSE "resolver_del"

\* The loop of resolve() that runs next.
resolve_loop(module, at, queued) ==
    IF at.imported < module.imports THEN "resolve_import"
    ELSE IF at.predeclared < Len(module.ordered) THEN "resolve_decl_struct"
    ELSE IF at.declared < Len(module.ordered) THEN "resolve_decl"
    ELSE IF at.completed < queued THEN "complete_function"
    ELSE "resolver_del"

Resolving(loop) ==
    /\ Running
    /\ resolve_state # NoOp
    /\ resolve_loop(resolve_state.module, resolve_state.at,
                    Len(incomplete_functions)) = loop

\* The state once the loop counted by index has made the calls of one more
\* iteration.
resolved(index, calls) ==
    [resolve_state EXCEPT !.at[index] = @ + 1, !.log = @ \o calls]

OthersOfResolve == <<vars_types, vars_symbols, vars_imports, vars_functions,
                     instance_stack, instance_returns, resolved_count,
                     static_symbols, diag>>

\* One iteration of the loop over the imports.
ResolveImport ==
    /\ Resolving("resolve_import")
    /\ resolve_state' = resolved("imported",
           <<[call |-> "resolve_import", i |-> resolve_state.at.imported + 1]>>)
    /\ UNCHANGED <<OthersOfResolve, incomplete_functions>>

\* One iteration of the first loop over the ordered declarations.
ResolveDeclStructs ==
    /\ Resolving("resolve_decl_struct")
    /\ LET i == resolve_state.at.predeclared + 1
           decl == resolve_state.module.ordered[i]
       IN  resolve_state' = resolved("predeclared",
               IF decl \notin {"CST_DECL_STRUCT", "CST_DECL_STRUCT template"}
               THEN <<>>
               ELSE <<[call |-> "resolve_decl_struct", i |-> i]>>)
    /\ UNCHANGED <<OthersOfResolve, incomplete_functions>>

\* One iteration of the second loop over the ordered declarations.
ResolveDecls ==
    /\ Resolving("resolve_decl")
    /\ LET i == resolve_state.at.declared + 1
           decl == resolve_state.module.ordered[i]
           instances == Cardinality({j \in DOMAIN incomplete_functions :
                                        incomplete_functions[j].instance})
       IN  \E instantiates \in BOOLEAN :
              /\ instantiates => /\ decl \in {"CST_DECL_FUNCTION", "CST_DECL_VARIABLE"}
                                 /\ instances < MaxInstances
              /\ resolve_state' = resolved("declared",
                     CASE decl = "CST_DECL_STRUCT" ->
                             <<[call |-> "complete_struct", i |-> i]>>
                       [] decl = "CST_DECL_STRUCT template" -> <<>>
                       [] OTHER -> <<[call |-> "resolve_decl", i |-> i]>>)
              /\ incomplete_functions' = incomplete_functions
                     \o (IF instantiates THEN <<[decl |-> i, instance |-> TRUE]>>
                         ELSE <<>>)
                     \o (IF decl = "CST_DECL_FUNCTION"
                         THEN <<[decl |-> i, instance |-> FALSE]>> ELSE <<>>)
    /\ UNCHANGED OthersOfResolve

\* One iteration of the loop over the incomplete functions; the body may
\* request a function template instance, which joins the queue.
CompleteFunctions ==
    /\ Resolving("complete_function")
    /\ LET i == resolve_state.at.completed + 1
           instances == Cardinality({j \in DOMAIN incomplete_functions :
                                        incomplete_functions[j].instance})
       IN  \E instantiates \in BOOLEAN :
              /\ instantiates => instances < MaxInstances
              /\ resolve_state' = resolved("completed",
                     <<[call |-> "complete_function", i |-> i]>>)
              /\ incomplete_functions' = incomplete_functions
                     \o (IF instantiates
                         THEN <<[decl |-> incomplete_functions[i].decl,
                                 instance |-> TRUE]>>
                         ELSE <<>>)
    /\ UNCHANGED OthersOfResolve

\* resolve(module) is entered: resolver_new.
ResolveBegin ==
    /\ Running
    /\ resolve_state = NoOp
    /\ \E imports \in 0 .. MaxImports, count \in 0 .. MaxDecls :
          \E ordered \in [1 .. count -> DeclKinds] :
             resolve_state' =
                 [module |-> [imports |-> imports, ordered |-> ordered],
                  at |-> [imported |-> 0, predeclared |-> 0, declared |-> 0,
                          completed |-> 0],
                  log |-> <<>>]
    /\ UNCHANGED <<OthersOfResolve, incomplete_functions>>

InitResolve ==
    /\ type_heap = <<>>
    /\ unique_calls = {}
    /\ symbol_heap = <<>>
    /\ symbol_tables = <<>>
    /\ sym_inserted = {}
    /\ last_op = NoOp
    /\ IdleResolver
    /\ diag = NoDiag

NextResolve ==
    \/ ResolveBegin
    \/ ResolveImport
    \/ ResolveDeclStructs
    \/ ResolveDecls
    \/ CompleteFunctions

SpecResolve == InitResolve /\ [][NextResolve]_vars

\* The positions of the history holding a call of one of the given kinds.
C14_Calls(kinds) ==
    {k \in DOMAIN resolve_state.log : resolve_state.log[k].call \in kinds}

\* Every call counted 1..count of the given kind stands before position k.
C14_AllBefore(kind, wanted, k) ==
    \A i \in wanted :
       \E j \in C14_Calls({kind}) : j < k /\ resolve_state.log[j].i = i

C14_Structs ==
    {i \in DOMAIN resolve_state.module.ordered :
        resolve_state.module.ordered[i] \in
            {"CST_DECL_STRUCT", "CST_DECL_STRUCT template"}}

(***************************************************************************)
(* C14: in the history of resolve(module) every import is resolved before  *)
(* any top-level declaration is, every top-level struct is pre-declared    *)
(* before any other top-level declaration is resolved or any struct is     *)
(* completed, and every top-level declaration is resolved (every plain     *)
(* struct completed) before any function body is.                          *)
(***************************************************************************)
C14_ResolveOrder ==
    resolve_state # NoOp =>
    LET ordered == resolve_state.module.ordered
    IN  /\ \A k \in C14_Calls({"resolve_decl_struct", "resolve_decl",
                               "complete_struct", "complete_function"}) :
              C14_AllBefore("resolve_import", 1 .. resolve_state.module.imports, k)
        /\ \A k \in C14_Calls({"resolve_decl", "complete_struct",
                               "complete_function"}) :
              C14_AllBefore("resolve_decl_struct", C14_Structs, k)
        /\ \A k \in C14_Calls({"complete_function"}) :
              /\ C14_AllBefore("resolve_decl",
                     {i \in DOMAIN ordered :
                         ordered[i] \in {"CST_DECL_FUNCTION", "CST_DECL_VARIABLE"}}, k)
              /\ C14_AllBefore("complete_struct",
                     {i \in DOMAIN ordered : ordered[i] = "CST_DECL_STRUCT"}, k)

\* A module with imports whose first declaration is a function and whose
\* last is a struct, resolved to the end, the body of the function and of
\* an instance requested on the way included.
C14_Witness ==
    /\ resolve_state # NoOp
    /\ resolve_state.module.imports = MaxImports
    /\ Len(resolve_state.module.ordered) >= 2
    /\ resolve_state.module.ordered[1] = "CST_DECL_FUNCTION"
    /\ resolve_state.module.ordered[Len(resolve_state.module.ordered)] = "CST_DECL_STRUCT"
    /\ Cardinality(C14_Calls({"complete_function"})) = 2
    /\ resolve_loop(resolve_state.module, resolve_state.at,
                    Len(incomplete_functions)) = "resolver_del"

\* resolve(module) is scheduled until it returns: it is one call, and each
\* of its loops goes on to its next iteration.
SpecResolveLive == SpecResolve /\ WF_vars(NextResolve)

\* The calls of complete_function for the function at position j of the
\* queue.
C29_Completions(j) ==
    {k \in C14_Calls({"complete_function"}) : resolve_state.log[k].i = j}

\* No function of the queue was completed twice, and every completion is
\* of a function of the queue.
C29_AtMostOnce ==
    resolve_state # NoOp =>
        /\ \A j \in DOMAIN incomplete_functions : Cardinality(C29_Completions(j)) <= 1
        /\ \A k \in C14_Calls({"complete_function"}) :
               resolve_state.log[k].i \in DOMAIN incomplete_functions

\* resolve(module) is at its return, every function of the queue completed
\* once.
C29_Returned ==
    /\ resolve_state # NoOp
    /\ resolve_loop(resolve_state.module, resolve_state.at,
                    Len(incomplete_functions)) = "resolver_del"
    /\ \A j \in DOMAIN incomplete_functions : Cardinality(C29_Completions(j)) = 1

(***************************************************************************)
(* C29: every function on the queue of incomplete functions, those queued  *)
(* while the queue is drained included, has its body completed exactly     *)
(* once before resolve(module) returns: no function is ever completed      *)
(* twice, and resolve(module) comes to its return with every function of   *)
(* the queue completed.                                                    *)
(***************************************************************************)
C29_CompletedOnce == []C29_AtMostOnce /\ <>[]C29_Returned

\* resolve(module) returned after completing a function and then the
\* template instance which the body of that function had queued.
C29_Witness ==
    /\ C29_Returned
    /\ \E j \in DOMAIN incomplete_functions :
          /\ ~incomplete_functions[j].instance
          /\ \E l \in DOMAIN incomplete_functions :
                /\ l > j
                /\ incomplete_functions[l].instance
                /\ incomplete_functions[l].decl = incomplete_functions[j].decl

(***************************************************************************)
(* Static storage (src/resolve.c).  A name is the sequence of its          *)
(* characters; a static name is the string normalize builds from it.       *)
(* static_symbols holds the static name of every registered symbol.  In    *)
(* this part resolve_state holds the reservations made by slice lists      *)
(* whose elements are still being resolved, the counter naming their       *)
(* arrays, and the history of reservations.  The empty string stands for   *)
(* the NULL prefix.                                                        *)
(***************************************************************************)
MaxStatics == 4

\* normalize_unique that never looks at the registry.
normalize_unique_blind(statics, prefix, name, unique_id) ==
    LET RECURSIVE name_string(_)
        name_string(i) ==
            IF i > Len(name) THEN ""
            ELSE (IF name[i] = "[" THEN "_" ELSE name[i]) \o name_string(i + 1)
    IN  (IF prefix # "" THEN prefix \o "." ELSE "") \o name_string(1)

RECURSIVE normalize_unique(_, _, _, _)
normalize_unique(statics, prefix, name, unique_id) ==
    LET RECURSIVE name_string(_)
        name_string(i) ==
            IF i > Len(name) THEN ""
            ELSE (IF name[i] \in {"[", "]", ",", " ", "*"}
                  THEN "_" ELSE name[i]) \o name_string(i + 1)
        \* normalize(prefix, name, unique_id)
        normalized == (IF prefix # "" THEN prefix \o "." ELSE "")
                        \o name_string(1)
                        \o (IF unique_id # 0 THEN "." \o fmt_zu(unique_id) ELSE "")
        name_collision == \E i \in DOMAIN statics : statics[i] = normalized
    IN  IF ~name_collision THEN normalized
        ELSE normalize_unique(statics, prefix, name, unique_id + 1)

\* register_static_symbol: the registry and the diagnostic after the call.
register_static_symbol(statics, name) ==
    IF \E i \in DOMAIN statics : statics[i] = name
    THEN [statics |-> statics,
          diag |-> fatal("normalized symbol name already exists", name)]
    ELSE [statics |-> Append(statics, name), diag |-> NoDiag]

reservations ==
    IF resolve_state = NoOp THEN [pending |-> <<>>, id |-> 0, log |-> <<>>]
    ELSE resolve_state

\* The history with one more reservation in it.
reserved(prefix, name, static_name) ==
    Append(reservations.log, [prefix |-> prefix, name |-> name,
                              static_name |-> static_name,
                              registry |-> static_symbols])

ReserveStatic ==
    /\ Running
    /\ Len(static_symbols) + Len(reservations.pending) < MaxStatics
    /\ UNCHANGED <<vars_types, vars_symbols, vars_templates, vars_imports,
                   vars_functions>>

\* A declaration of a variable, a constant or a function, an instance of a
\* function template, or a bytes literal: the name is reserved and the
\* symbol registered at once.
ResolveDeclStatic ==
    /\ ReserveStatic
    /\ \E prefix \in {"", "f"},
          name \in {<<"f">>, <<"f", "_">>, <<"f", "[">>, <<"b">>} :
          LET static_name == normalize_unique(static_symbols, prefix, name, 0)
              registered == register_static_symbol(static_symbols, static_name)
          IN  /\ static_symbols' = registered.statics
              /\ diag' = registered.diag
              /\ resolve_state' = [reservations EXCEPT
                                      !.log = reserved(prefix, name, static_name)]

\* resolve_expr_list of a slice list in a static context up to its first
\* element: the array's name is reserved.
ResolveExprListBegin ==
    /\ ReserveStatic
    /\ \E prefix \in {"", "f"} :
          LET name == <<"s", fmt_zu(reservations.id)>>
              static_name == normalize_unique(static_symbols, prefix, name, 0)
          IN  resolve_state' =
                  [pending |-> Append(reservations.pending, static_name),
                   id |-> reservations.id + 1,
                   log |-> reserved(prefix, name, static_name)]
    /\ UNCHANGED <<static_symbols, diag>>

\* The elements of the innermost slice list are resolved: its array is
\* registered.
ResolveExprListEnd ==
    /\ Running
    /\ reservations.pending # <<>>
    /\ LET pending == reservations.pending
           registered == register_static_symbol(static_symbols, pending[Len(pending)])
       IN  /\ static_symbols' = registered.statics
           /\ diag' = registered.diag
           /\ resolve_state' = [reservations EXCEPT
                                   !.pending = SubSeq(pending, 1, Len(pending) - 1)]
    /\ UNCHANGED <<vars_types, vars_symbols, vars_templates, vars_imports,
                   vars_functions>>

NextStatics ==
    \/ ResolveDeclStatic
    \/ ResolveExprListBegin
    \/ ResolveExprListEnd

SpecStatics == InitResolve /\ [][NextStatics]_vars

\* The static name of a reservation without a numeric suffix.
C15_Plain(reservation) ==
    LET RECURSIVE plain(_)
        plain(i) ==
            IF i > Len(reservation.name) THEN ""
            ELSE (IF reservation.name[i] = "[" THEN "_" ELSE reservation.name[i])
                    \o plain(i + 1)
    IN  (IF reservation.prefix = "" THEN "" ELSE reservation.prefix \o ".")
            \o plain(1)

C15_Taken(reservation, static_name) ==
    \E i \in DOMAIN reservation.registry : reservation.registry[i] = static_name

\* No two entries of the registry share a static name and the failure of
\* register_static_symbol has not been reached.
C15_RegistryUnique ==
    /\ \A i, j \in DOMAIN static_symbols :
          static_symbols[i] = static_symbols[j] => i = j
    /\ diag = NoDiag

INT_MAX == 2147483647

MaxFunctionParameters == 2
MaxBodyStmts == 4

\* The sizes of the types of parameters and locals: a nine-byte struct and
\* an array of 2^30 bytes.
TypeSizes == {9, 1073741824}

ceil8zu(n) == ((n + 7) \div 8) * 8

\* a + b on ints.
int_add(a, b, wraps) ==
    IF b > 0 /\ a > INT_MAX - b
    THEN IF wraps
         THEN [value |-> (((a - INT_MAX) - 1) + b - INT_MAX) - 1, diag |-> NoDiag]
         ELSE [value |-> a, diag |-> [msg |-> "signed integer overflow"]]
    ELSE IF b < 0 /\ a < ((0 - INT_MAX) - 1) - b
    THEN IF wraps
         THEN [value |-> (((a + INT_MAX) + 1) + b + INT_MAX) + 1, diag |-> NoDiag]
         ELSE [value |-> a, diag |-> [msg |-> "signed integer overflow"]]
    ELSE [value |-> a + b, diag |-> NoDiag]

\* The parameter loop of resolve_decl_function from parameter i down: the
\* address of every parameter and the offset above the last one.
RECURSIVE function_parameter_addresses(_, _, _, _)
function_parameter_addresses(sizes, i, rbp_offset, wraps) ==
    IF i = 0 THEN [addresses |-> <<>>, rbp_offset |-> rbp_offset, diag |-> NoDiag]
    ELSE LET next == int_add(rbp_offset, ceil8zu(sizes[i]), wraps)
             rest == function_parameter_addresses(sizes, i - 1, next.value, wraps)
         IN  IF next.diag # NoDiag
             THEN [addresses |-> <<>>, rbp_offset |-> rbp_offset, diag |-> next.diag]
             ELSE [rest EXCEPT !.addresses = Append(@, rbp_offset)]

\* resolve_decl_function from the parameter loop on, for the first function
\* declared.
ResolveDeclFunctionStorage ==
    /\ Running
    /\ block_stack = <<>>
    /\ symbol_tables = <<>>
    /\ \E count \in 0 .. MaxFunctionParameters, wraps \in BOOLEAN :
          \E sizes \in [1 .. count -> TypeSizes] :
             LET laid == function_parameter_addresses(sizes, count, 16, wraps)
                 symbol_table == Len(symbol_tables) + 1
                 symbol_parameters ==
                     [i \in 1 .. count |->
                         [name |-> "p" \o fmt_zu(i), size |-> sizes[i],
                          address |-> laid.addresses[i]]]
                 symbol_return == [name |-> "return", address |-> laid.rbp_offset]
                 symbols == symbol_parameters \o <<symbol_return>>
             IN  IF laid.diag # NoDiag
                 THEN /\ diag' = laid.diag
                      /\ last_op' = [op |-> "resolve_decl_function", sizes |-> sizes]
                      /\ UNCHANGED <<symbol_heap, symbol_tables, incomplete_functions>>
                 ELSE /\ symbol_heap' = symbol_heap \o symbols
                      /\ symbol_tables' = Append(symbol_tables,
                             [symbol_table_new(NULL) EXCEPT !.symbols =
                                 [name \in {symbols[i].name : i \in DOMAIN symbols} |->
                                     Len(symbol_heap) + CHOOSE i \in DOMAIN symbols :
                                                           symbols[i].name = name]])
                      /\ incomplete_functions' =
                             <<[function |-> [local_stack_offset |-> 0],
                                symbol_table |-> symbol_table]>>
                      /\ last_op' = [op |-> "resolve_decl_function", sizes |-> sizes,
                                     symbol_parameters |-> symbol_parameters,
                                     symbol_return |-> symbol_return]
                      /\ UNCHANGED diag
    /\ UNCHANGED <<vars_types, vars_imports, vars_module, sym_inserted, resolver,
                   block_stack, defer_heap, stmt_count, instance_stack,
                   instance_returns, resolved_count>>

\* resolve_block that leaves the offset where the block left it.
resolve_block_return_keeps_offset(frame) ==
    [resolver EXCEPT !.current_symbol_table = frame.save_symbol_table,
                     !.current_defer = frame.save_current_defer]

\* The resolver when resolve_block returns.
resolve_block_return(frame) ==
    [resolver EXCEPT !.current_symbol_table = frame.save_symbol_table,
                     !.current_rbp_offset = frame.save_rbp_offset,
                     !.current_defer = frame.save_current_defer]

\* resolve_block on entry, for the resolver that calls it.
resolve_block_entry(self, symbol_table) ==
    [save_symbol_table |-> self.current_symbol_table,
     save_rbp_offset |-> self.current_rbp_offset,
     save_current_defer |-> self.current_defer,
     symbol_table |-> symbol_table,
     entry |-> [current_symbol_table |-> self.current_symbol_table,
                current_rbp_offset |-> self.current_rbp_offset,
                current_defer |-> self.current_defer],
     locals |-> 0, nested |-> <<>>]

OthersOfStorage == <<vars_types, vars_imports, vars_module, sym_inserted,
                     instance_stack, instance_returns, resolved_count>>

\* complete_function up to the first statement of the body.
CompleteFunctionStorageBegin ==
    /\ Running
    /\ block_stack = <<>>
    /\ incomplete_functions # <<>>
    /\ LET incomplete == incomplete_functions[1]
           entered == [current_function |-> incomplete.function,
                       current_symbol_table |-> NULL,
                       current_rbp_offset |-> 0,
                       rbp_offsets |-> <<0>>,
                       current_defer |-> NULL, current_loop_defer |-> NULL,
                       is_within_loop |-> FALSE]
       IN  /\ block_stack' = <<resolve_block_entry(entered, incomplete.symbol_table)>>
           /\ resolver' = [entered EXCEPT
                              !.current_symbol_table = incomplete.symbol_table]
    /\ incomplete_functions' = Tail(incomplete_functions)
    /\ last_op' = [op |-> "complete_function_begin"]
    /\ UNCHANGED <<OthersOfStorage, symbol_heap, symbol_tables, defer_heap,
                   stmt_count, diag>>

InBody ==
    /\ Running
    /\ block_stack # <<>>
    /\ "symbol_table" \in DOMAIN block_stack[1]

\* Some statement of the innermost block is next.
InBodyStmt == InBody /\ stmt_count < MaxBodyStmts

\* resolve_decl_variable of a local: resolver_reserve_storage_local and the
\* insertion of the variable in the current symbol table.
ResolveDeclVariableLocal ==
    /\ InBodyStmt
    /\ \E size \in TypeSizes, wraps \in BOOLEAN :
          LET lowered == int_add(resolver.current_rbp_offset,
                                 0 - ceil8zu(size), wraps)
              current_rbp_offset == lowered.value
              local_stack_offset ==
                  IF current_rbp_offset < resolver.current_function.local_stack_offset
                  THEN current_rbp_offset
                  ELSE resolver.current_function.local_stack_offset
              address == current_rbp_offset
              name == "x" \o fmt_zu(stmt_count)
              depth == Len(block_stack)
              first == [size |-> size, address |-> address,
                        entry |-> block.entry.current_rbp_offset]
          IN  IF lowered.diag # NoDiag
              THEN /\ diag' = lowered.diag
                   /\ last_op' = [op |-> "resolve_decl_variable", size |-> size,
                                  before |-> resolver.current_rbp_offset]
                   /\ UNCHANGED <<resolver, block_stack, symbol_heap, symbol_tables,
                                  stmt_count>>
              ELSE /\ resolver' = [resolver EXCEPT
                          !.current_rbp_offset = current_rbp_offset,
                          !.rbp_offsets = Append(@, current_rbp_offset),
                          !.current_function.local_stack_offset = local_stack_offset]
                   /\ symbol_heap' = Append(symbol_heap,
                          [name |-> name, size |-> size, address |-> address])
                   /\ symbol_tables' =
                          [symbol_tables EXCEPT ![resolver.current_symbol_table].symbols =
                              [n \in DOMAIN @ \cup {name} |->
                                  IF n = name THEN Len(symbol_heap) + 1 ELSE @[n]]]
                   /\ block_stack' =
                          [i \in DOMAIN block_stack |->
                              IF i = depth
                              THEN [block_stack[i] EXCEPT !.locals = @ + 1]
                              ELSE IF i = depth - 1 /\ block.locals = 0
                              THEN [block_stack[i] EXCEPT !.nested = Append(@, first)]
                              ELSE block_stack[i]]
                   /\ stmt_count' = stmt_count + 1
                   /\ last_op' = [op |-> "resolve_decl_variable", size |-> size,
                                  before |-> resolver.current_rbp_offset,
                                  address |-> address]
                   /\ UNCHANGED diag
    /\ UNCHANGED <<OthersOfStorage, defer_heap, incomplete_functions>>

\* A statement with a block of its own (an arm of an if, the body of a
\* loop) up to the first statement of the block.
ResolveStmtBlockEnter ==
    /\ InBodyStmt
    /\ Len(block_stack) <= MaxBlockDepth
    /\ LET symbol_table == Len(symbol_tables) + 1
       IN  /\ symbol_tables' = Append(symbol_tables,
                                      symbol_table_new(resolver.current_symbol_table))
           /\ block_stack' = Append(block_stack,
                                    resolve_block_entry(resolver, symbol_table))
           /\ resolver' = [resolver EXCEPT !.current_symbol_table = symbol_table]
    /\ stmt_count' = stmt_count + 1
    /\ last_op' = [op |-> "resolve_block"]
    /\ UNCHANGED <<OthersOfStorage, symbol_heap, defer_heap, diag,
                   incomplete_functions>>

\* resolve_stmt_defer of a defer with an empty body.
ResolveStmtDeferEmpty ==
    /\ InBodyStmt
    /\ LET symbol_table == symbol_table_new(resolver.current_symbol_table)
           body == resolve_block_entry(resolver, Len(symbol_tables) + 1)
           returned == resolve_block_return(body)
       IN  /\ symbol_tables' = Append(symbol_tables, symbol_table)
           /\ defer_heap' = Append(defer_heap, [prev |-> returned.current_defer])
           /\ resolver' = [returned EXCEPT !.current_defer = Len(defer_heap) + 1]
    /\ stmt_count' = stmt_count + 1
    /\ last_op' = [op |-> "resolve_stmt_defer"]
    /\ UNCHANGED <<OthersOfStorage, symbol_heap, block_stack, diag,
                   incomplete_functions>>

\* The last statement of the innermost block is resolved: resolve_block
\* returns, to complete_function when the block is the body.
ResolveBlockReturn ==
    /\ InBody
    /\ LET returned == resolve_block_return(block)
       IN  /\ resolver' = IF Len(block_stack) = 1
                          THEN [returned EXCEPT !.current_function = NULL]
                          ELSE returned
           /\ last_op' = [op |-> "resolve_block_return", entry |-> block.entry,
                          exit |-> [current_symbol_table |-> resolver.current_symbol_table,
                                    current_rbp_offset |-> resolver.current_rbp_offset,
                                    current_defer |-> resolver.current_defer],
                          function |-> resolver.current_function,
                          rbp_offsets |-> resolver.rbp_offsets]
    /\ block_stack' = SubSeq(block_stack, 1, Len(block_stack) - 1)
    /\ UNCHANGED <<OthersOfStorage, symbol_heap, symbol_tables, defer_heap,
                   stmt_count, diag, incomplete_functions>>

NextStorage ==
    \/ ResolveDeclFunctionStorage
    \/ CompleteFunctionStorageBegin
    \/ ResolveDeclVariableLocal
    \/ ResolveStmtBlockEnter
    \/ ResolveStmtDeferEmpty
    \/ ResolveBlockReturn

SpecStorage == InitResolve /\ [][NextStorage]_vars

\* The least multiple of 8 that is no less than size.
C16_RoundedUp(size) == IF size % 8 = 0 THEN size ELSE size + (8 - (size % 8))

(***************************************************************************)
(* C16 as stated: a local reservation completes, lowers current_rbp_offset *)
(* by the size of the local rounded up to a multiple of 8 and returns the  *)
(* new offset; while a body is resolved local_stack_offset is the least    *)
(* value current_rbp_offset has taken in the function, so                  *)
(* local_stack_offset <= current_rbp_offset <= 0.                          *)
(***************************************************************************)
C16_LocalStorage ==
    /\ last_op.op = "resolve_decl_variable" =>
          /\ diag = NoDiag
          /\ last_op.address = resolver.current_rbp_offset
          /\ last_op.address < last_op.before
          /\ last_op.before - last_op.address = C16_RoundedUp(last_op.size)
    /\ (InBody /\ Running) =>
          /\ resolver.current_rbp_offset <= 0
          /\ resolver.current_function.local_stack_offset
                <= resolver.current_rbp_offset
          /\ \A i \in DOMAIN resolver.rbp_offsets :
                resolver.current_function.local_stack_offset <= resolver.rbp_offsets[i]
          /\ \E i \in DOMAIN resolver.rbp_offsets :
                resolver.current_function.local_stack_offset = resolver.rbp_offsets[i]

\* The first locals of the blocks nested directly in some open block.
C17_Nested == UNION {{block_stack[i].nested[j] : j \in DOMAIN block_stack[i].nested} :
                        i \in DOMAIN block_stack}

C17_Restored ==
    last_op.op = "resolve_block_return" =>
        /\ resolver.current_rbp_offset = last_op.entry.current_rbp_offset
        /\ resolver.current_symbol_table = last_op.entry.current_symbol_table
        /\ resolver.current_defer = last_op.entry.current_defer

C18_ParameterSlots ==
    last_op.op = "resolve_decl_function" =>
        /\ diag = NoDiag
        /\ LET parameters == last_op.symbol_parameters
               slot_end(i) == parameters[i].address + C16_RoundedUp(parameters[i].size)
               RECURSIVE sum(_)
               sum(i) == IF i = 0 THEN 0
                         ELSE C16_RoundedUp(parameters[i].size) + sum(i - 1)
           IN  /\ \A i \in DOMAIN parameters : parameters[i].address >= 16
               /\ last_op.symbol_return.address >= 16
               /\ \A i \in DOMAIN parameters :
                     parameters[i].address < last_op.symbol_return.address
               /\ \A i, j \in DOMAIN parameters :
                     i # j => (slot_end(i) <= parameters[j].address
                                 \/ slot_end(j) <= parameters[i].address)
               /\ \A i \in DOMAIN parameters : slot_end(i) <= last_op.symbol_return.address
               /\ last_op.symbol_return.address = 16 + sum(Len(parameters))

(***************************************************************************)
(* Casts (src/resolve.c shallow_implicit_cast and resolve_expr_cast).      *)
(* Types are uniqued, so a type is its address in type_heap and two types  *)
(* are the same type exactly when their addresses are equal.  An           *)
(* expression is a record [kind, type] with the operand of a cast and the  *)
(* value of an integer literal where it has one.                           *)
(***************************************************************************)
\* The size of the types without a byte layout.
SIZEOF_UNSIZED == 0 - 1

\* The type of the integer literals without a suffix.
type_new_integer == type_new("integer", SIZEOF_UNSIZED, "TYPE_INTEGER")

type_new_any == type_new("any", SIZEOF_UNSIZED, "TYPE_ANY")

type_is_any_integer(type) == type.kind = "TYPE_INTEGER" \/ type_is_integer(type)

\* The builtin types, the pointer, array and slice types over them, and
\* the function types over those, as the heap holds them.
CastTypes ==
    LET builtin == <<type_new_void, type_new_bool, type_new_byte, type_new_u8,
                     type_new_s8, type_new_usize, type_new_integer, type_new_any>>
        derived == builtin \o <<type_new_pointer(builtin, 4),
                                type_new_pointer(builtin, 8),
                                type_new_array(builtin, 2, 4),
                                type_new_slice(builtin, 4)>>
        func(parameter_types, return_type) ==
            type_new_function(derived, parameter_types, return_type)
    IN  derived \o <<func(<<>>, 1), func(<<9>>, 1), func(<<10>>, 1),
                     func(<<9, 4>>, 1), func(<<10, 4>>, 1), func(<<4>>, 1),
                     func(<<9>>, 9), func(<<10>>, 10), func(<<10, 10>>, 1),
                     func(<<9, 9>>, 10)>>

expr_new_cast(type, expr) == [kind |-> "EXPR_CAST", type |-> type, expr |-> expr]

out_of_range_conversion(from, type, value, cmp, limit) ==
    [msg |-> "out-of-range conversion", from |-> from, type |-> type,
     value |-> value, cmp |-> cmp, limit |-> limit]

\* The parameter loop of shallow_implicit_cast: "valid" when it runs to its
\* end, "invalid" when it returns the expression, "trap" when the read
\* past the end of the source's parameter types faults.  stray is what
\* that read yields: the address of a type, or NULL for the fault.
function_parameters_cast(heap, type, from, stray) ==
    LET param_count == Len(heap[type].parameter_types)
        RECURSIVE loop(_)
        loop(i) ==
            IF i > param_count THEN "valid"
            ELSE LET type_param == heap[type].parameter_types[i]
                     from_param == IF i <= Len(heap[from].parameter_types)
                                   THEN heap[from].parameter_types[i]
                                   ELSE stray
                 IN  IF from_param = NULL THEN "trap"
                     ELSE LET same == type_param = from_param
                              non_any_ptr_to_any_ptr ==
                                  /\ heap[type_param].kind = "TYPE_POINTER"
                                  /\ heap[heap[type_param].base].kind = "TYPE_ANY"
                                  /\ heap[from_param].kind = "TYPE_POINTER"
                                  /\ heap[heap[from_param].base].kind # "TYPE_ANY"
                          IN  IF ~same /\ ~non_any_ptr_to_any_ptr
                              THEN "invalid"
                              ELSE loop(i + 1)
    IN  loop(1)

\* shallow_implicit_cast: the expression returned and the diagnostic of
\* the fatal() or fault that ended the run (NoDiag when the call returned).
shallow_implicit_cast(heap, type, expr, stray) ==
    LET to == heap[type]
        from == heap[expr.type]
        returned(result) == [expr |-> result, diag |-> NoDiag]
        literal(min, max) ==
            IF expr.integer < min
            THEN [expr |-> NoExpr,
                  diag |-> out_of_range_conversion(from.name, to.name,
                                                   expr.integer, "<", min)]
            ELSE IF expr.integer > max
            THEN [expr |-> NoExpr,
                  diag |-> out_of_range_conversion(from.name, to.name,
                                                   expr.integer, ">", max)]
            ELSE returned([kind |-> "EXPR_INTEGER", type |-> type,
                           integer |-> expr.integer])
    IN  IF type = expr.type THEN returned(expr)
        ELSE IF to.kind = "TYPE_BYTE" /\ from.kind = "TYPE_INTEGER"
        THEN literal(context_limits.u8_min, context_limits.u8_max)
        ELSE IF type_is_any_integer(to) /\ to.kind # "TYPE_INTEGER"
                /\ from.kind = "TYPE_INTEGER"
        THEN literal(data_integer(to).min, data_integer(to).max)
        ELSE IF to.kind = "TYPE_POINTER" /\ heap[to.base].kind = "TYPE_ANY"
                /\ from.kind = "TYPE_POINTER" /\ heap[from.base].kind # "TYPE_ANY"
        THEN returned(expr_new_cast(type, expr))
        ELSE IF to.kind = "TYPE_FUNCTION" /\ from.kind = "TYPE_FUNCTION"
        THEN LET parameters == function_parameters_cast(heap, type, expr.type, stray)
                 same == to.return_type = from.return_type
                 non_any_ptr_to_any_ptr ==
                     /\ heap[to.return_type].kind = "TYPE_POINTER"
                     /\ heap[heap[to.return_type].base].kind = "TYPE_ANY"
                     /\ heap[from.return_type].kind = "TYPE_POINTER"
                     /\ heap[heap[from.return_type].base].kind # "TYPE_ANY"
             IN  IF parameters = "trap"
                 THEN [expr |-> NoExpr, diag |-> fatal("segmentation fault", from.name)]
                 ELSE IF parameters = "invalid" THEN returned(expr)
                 ELSE IF ~same /\ ~non_any_ptr_to_any_ptr THEN returned(expr)
                 ELSE returned(expr_new_cast(type, expr))
        ELSE returned(expr)

invalid_cast(msg, from, type) == [msg |-> msg, from |-> from, type |-> type]

\* The test of resolve_expr_cast that admits every pair of sized types.
valid_cast_any(to, from) == TRUE

\* The pairs of sized types resolve_expr_cast admits.
valid_cast(to, from) ==
    \/ type_is_any_integer(to) /\ type_is_any_integer(from)
    \/ to.kind = "TYPE_BOOL" /\ from.kind = "TYPE_BYTE"
    \/ to.kind = "TYPE_BYTE" /\ from.kind = "TYPE_BOOL"
    \/ to.kind = "TYPE_BOOL" /\ type_is_any_integer(from)
    \/ type_is_any_integer(to) /\ from.kind = "TYPE_BOOL"
    \/ to.kind = "TYPE_BYTE" /\ type_is_any_integer(from)
    \/ type_is_any_integer(to) /\ from.kind = "TYPE_BYTE"
    \/ to.kind = "TYPE_POINTER" /\ from.kind = "TYPE_USIZE"
    \/ to.kind = "TYPE_USIZE" /\ from.kind = "TYPE_POINTER"
    \/ to.kind = "TYPE_POINTER" /\ from.kind = "TYPE_POINTER"
    \/ to.kind = "TYPE_FUNCTION" /\ from.kind = "TYPE_FUNCTION"

\* resolve_expr_cast on the resolved typespec and the resolved operand.
resolve_expr_cast(heap, type, rhs) ==
    IF heap[rhs.type].size = SIZEOF_UNSIZED
    THEN [expr |-> NoExpr,
          diag |-> invalid_cast("invalid cast from unsized type",
                                heap[rhs.type].name, heap[type].name)]
    ELSE IF heap[type].size = SIZEOF_UNSIZED
    THEN [expr |-> NoExpr,
          diag |-> invalid_cast("invalid cast to unsized type",
                                heap[rhs.type].name, heap[type].name)]
    ELSE IF ~valid_cast(heap[type], heap[rhs.type])
    THEN [expr |-> NoExpr,
          diag |-> invalid_cast("invalid cast", heap[rhs.type].name, heap[type].name)]
    ELSE [expr |-> expr_new_cast(type, rhs), diag |-> NoDiag]

\* The resolved expressions of a type: a literal where the type is the
\* untyped integer, which only literals have, and an identifier elsewhere.
CastOperands(type) ==
    IF type_heap[type].kind = "TYPE_INTEGER"
    THEN {[kind |-> "EXPR_INTEGER", type |-> type, integer |-> value] :
             value \in {0 - 1, 7, 256}}
    ELSE {[kind |-> "EXPR_IDENTIFIER", type |-> type]}

\* What a read past the end of the source's parameter types may yield, for
\* the pairs of types whose cast makes that read.
StrayReads(type, from) ==
    IF Len(type_heap[type].parameter_types) > Len(type_heap[from].parameter_types)
    THEN DOMAIN type_heap \cup {NULL}
    ELSE {NULL}

OthersOfCasts == <<vars_types, vars_resolver, symbol_heap, symbol_tables, sym_inserted>>

\* A use of an expression where a type is expected.  The limits of usize
\* are beyond the integers of the model, so no literal meets a usize.
ShallowImplicitCast ==
    /\ Running
    /\ \E type \in DOMAIN type_heap, from \in DOMAIN type_heap :
          \E expr \in CastOperands(from), stray \in StrayReads(type, from) :
             /\ ~(type_heap[from].kind = "TYPE_INTEGER"
                    /\ type_heap[type].kind = "TYPE_USIZE")
             /\ LET res == shallow_implicit_cast(type_heap, type, expr, stray)
                IN  /\ last_op' = [op |-> "shallow_implicit_cast", type |-> type,
                                   from |-> expr, expr |-> res.expr]
                    /\ diag' = res.diag
    /\ UNCHANGED OthersOfCasts

\* An explicit cast expression.
ResolveExprCast ==
    /\ Running
    /\ \E type \in DOMAIN type_heap, from \in DOMAIN type_heap :
          \E rhs \in CastOperands(from) :
             LET res == resolve_expr_cast(type_heap, type, rhs)
             IN  /\ last_op' = [op |-> "resolve_expr_cast", type |-> type,
                                rhs |-> rhs, expr |-> res.expr]
                 /\ diag' = res.diag
    /\ UNCHANGED OthersOfCasts

InitCasts ==
    /\ type_heap = CastTypes
    /\ unique_calls = {}
    /\ symbol_heap = <<>>
    /\ symbol_tables = <<>>
    /\ sym_inserted = {}
    /\ last_op = NoOp
    /\ IdleResolver
    /\ diag = NoDiag

NextCasts ==
    \/ ShallowImplicitCast
    \/ ResolveExprCast

SpecCasts == InitCasts /\ [][NextCasts]_vars

\* The type at one position of a function type: 0 is the return position.
C19_Position(function, i) ==
    IF i = 0 THEN type_heap[function].return_type
    ELSE type_heap[function].parameter_types[i]

\* A position of the target and of the source that an implicit cast of
\* function types admits: the identical type, or *T in the source with
\* *any in the target.
C19_Admits(to, from) ==
    \/ to = from
    \/ /\ type_heap[to].kind = "TYPE_POINTER" /\ type_heap[from].kind = "TYPE_POINTER"
       /\ type_heap[type_heap[to].base].kind = "TYPE_ANY"
       /\ type_heap[type_heap[from].base].kind # "TYPE_ANY"

\* The last operation was an implicit cast between two different function
\* types.
C19_IsFunctionCast ==
    /\ last_op.op = "shallow_implicit_cast"
    /\ type_heap[last_op.type].kind = "TYPE_FUNCTION"
    /\ type_heap[last_op.from.type].kind = "TYPE_FUNCTION"
    /\ last_op.type # last_op.from.type

(***************************************************************************)
(* C19 as stated: shallow_implicit_cast between two different function     *)
(* types returns a Cast node to the target type exactly when the two have  *)
(* the same number of parameters and every parameter and the return        *)
(* position is the identical type or *T in the source with *any in the     *)
(* target; in every other case it returns the expression unchanged.        *)
(***************************************************************************)
C19_FunctionCast ==
    C19_IsFunctionCast =>
        LET to == last_op.type
            from == last_op.from.type
            count == Len(type_heap[to].parameter_types)
            admitted ==
                /\ count = Len(type_heap[from].parameter_types)
                /\ \A i \in 0 .. count :
                      C19_Admits(C19_Position(to, i), C19_Position(from, i))
        IN  /\ diag = NoDiag
            /\ IF admitted
               THEN last_op.expr = expr_new_cast(to, last_op.from)
               ELSE last_op.expr = last_op.from

\* The kinds of types the claim speaks of.
C20_Is(class, type) ==
    CASE class = "integer" ->
            type.kind \in {"TYPE_U8", "TYPE_S8", "TYPE_U16", "TYPE_S16", "TYPE_U32",
                           "TYPE_S32", "TYPE_U64", "TYPE_S64", "TYPE_USIZE",
                           "TYPE_SSIZE"}
      [] class = "bool" -> type.kind = "TYPE_BOOL"
      [] class = "byte" -> type.kind = "TYPE_BYTE"
      [] class = "usize" -> type.kind = "TYPE_USIZE"
      [] class = "pointer" -> type.kind = "TYPE_POINTER"
      [] class = "function" -> type.kind = "TYPE_FUNCTION"

\* The pairs (source, target) the claim lists.
C20_Pairs ==
    {<<"integer", "integer">>, <<"bool", "byte">>, <<"byte", "bool">>,
     <<"bool", "integer">>, <<"integer", "bool">>, <<"byte", "integer">>,
     <<"integer", "byte">>, <<"pointer", "usize">>, <<"usize", "pointer">>,
     <<"pointer", "pointer">>, <<"function", "function">>}

C20_Unsized(type) == type.kind \in {"TYPE_INTEGER", "TYPE_ANY"}

(***************************************************************************)
(* C20: resolve_expr_cast yields the Cast node exactly when both types are *)
(* sized and (source, target) is one of (integer, integer), (bool, byte),  *)
(* (byte, bool), (bool, integer), (integer, bool), (byte, integer),        *)
(* (integer, byte), (pointer, usize), (usize, pointer), (pointer, pointer) *)
(* and (function, function); every other cast ends with an error.          *)
(***************************************************************************)
C20_CastPairs ==
    last_op.op = "resolve_expr_cast" =>
        LET to == type_heap[last_op.type]
            from == type_heap[last_op.rhs.type]
            listed == /\ ~C20_Unsized(to)
                      /\ ~C20_Unsized(from)
                      /\ \E pair \in C20_Pairs :
                            C20_Is(pair[1], from) /\ C20_Is(pair[2], to)
        IN  IF listed
            THEN /\ diag = NoDiag
                 /\ last_op.expr = expr_new_cast(last_op.type, last_op.rhs)
            ELSE /\ diag # NoDiag
                 /\ diag.msg \in {"invalid cast", "invalid cast from unsized type",
                                  "invalid cast to unsized type"}
                 /\ last_op.expr = NoExpr

\* A cast of a pointer to usize was accepted.
C20_Witness ==
    /\ last_op.op = "resolve_expr_cast"
    /\ diag = NoDiag
    /\ type_heap[last_op.type].kind = "TYPE_USIZE"
    /\ type_heap[last_op.rhs.type].kind = "TYPE_POINTER"
    /\ last_op.expr.kind = "EXPR_CAST"

(***************************************************************************)
(* Values as bytes: value_to_new_bytes (src/tir.c) and the compile-time    *)
(* cast, the TIR_EXPR_CAST case of eval_rvalue (src/eval.c).               *)
(***************************************************************************)
\* The values serialised: booleans, bytes, integers of one and two bytes
\* at and around the ends of their ranges, and arrays of those.
BytesValues ==
    LET integers(type, range) == {[type |-> type, integer |-> i] : i \in range}
        array(count, base, elements) ==
            [type |-> type_new_array(ValueTypes, count, base), elements |-> elements]
        u8s == integers(type_new_u8, {1, 2, 3})
        s16s == integers(type_new_s16, {0 - 2, 4660})
    IN  {[type |-> type_new_bool, boolean |-> b] : b \in BOOLEAN}
          \cup {[type |-> type_new_byte, byte |-> b] : b \in {0, 128, 255}}
          \cup integers(type_new_u8, {0, 127, 128, 255})
          \cup integers(type_new_s8, {0 - 128, 0 - 1, 1, 127})
          \cup integers(type_new_u16, {0, 255, 256, 4660, 65535})
          \cup integers(type_new_s16, {0 - 32768, 0 - 4660, 0 - 1, 4660, 32767})
          \cup {array(3, 2, <<a, b, c>>) : a \in u8s, b \in u8s, c \in u8s}
          \cup {array(2, 7, <<a, b>>) : a \in s16s, b \in s16s}
          \cup {array(0, 2, <<>>)}

\* The casts evaluated: every scalar value above as a literal operand.
CastExprs ==
    LET literal(value) ==
            IF value.type.kind = "TYPE_BOOL"
            THEN [kind |-> "TIR_EXPR_BOOLEAN", type |-> value.type,
                  boolean |-> value.boolean]
            ELSE [kind |-> "TIR_EXPR_INTEGER", type |-> value.type,
                  integer |-> IF value.type.kind = "TYPE_BYTE"
                              THEN value.byte ELSE value.integer]
    IN  {[kind |-> "TIR_EXPR_CAST", type |-> type, expr |-> literal(value)] :
            type \in {type_new_bool, type_new_byte, type_new_u8, type_new_s8,
                      type_new_u16, type_new_s16},
            value \in {v \in BytesValues : v.type.kind # "TYPE_ARRAY"}}

OthersOfEval == <<vars_types, vars_resolver, symbol_heap, symbol_tables, sym_inserted>>

\* A value is serialised.
ValueToNewBytes ==
    /\ Running
    /\ \E value \in BytesValues :
          \E res \in {value_to_new_bytes(value)} :
              /\ last_op' = [op |-> "value_to_new_bytes", value |-> value,
                             bytes |-> res.bytes]
              /\ diag' = res.diag
    /\ UNCHANGED OthersOfEval

\* A cast in a constant expression is evaluated.
EvalRvalueCast ==
    /\ Running
    /\ \E expr \in CastExprs :
          \E res \in {eval_rvalue(expr, FALSE)} :
              /\ last_op' = [op |-> "eval_rvalue", expr |-> expr,
                             ndebug |-> FALSE, value |-> res.value]
              /\ diag' = res.diag
    /\ UNCHANGED OthersOfEval

NextBytes ==
    \/ ValueToNewBytes
    \/ EvalRvalueCast

SpecBytes == InitLiterals /\ [][NextBytes]_vars

RECURSIVE C23_Pow256(_)
C23_Pow256(n) == IF n = 0 THEN 1 ELSE 256 * C23_Pow256(n - 1)

\* The little-endian two's complement encoding of a scalar value at the
\* width of its type.
C23_Scalar(value) ==
    LET size == value.type.size
        number == CASE value.type.kind = "TYPE_BOOL" -> IF value.boolean THEN 1 ELSE 0
                    [] value.type.kind = "TYPE_BYTE" -> value.byte
                    [] OTHER -> value.integer
        unsigned == IF number < 0 THEN number + C23_Pow256(size) ELSE number
    IN  [k \in 1 .. size |-> (unsigned \div C23_Pow256(k - 1)) % 256]

(***************************************************************************)
(* C23: value_to_new_bytes of a bool, byte or sized integer value, or of   *)
(* an array of those, returns type.size bytes: the little-endian two's     *)
(* complement encoding of a scalar at the width of its type, and for an    *)
(* array the encodings of its elements one after the other in index order. *)
(***************************************************************************)
C23_BytesEncoding ==
    last_op.op = "value_to_new_bytes" =>
        LET value == last_op.value
            bytes == last_op.bytes
        IN  /\ diag = NoDiag
            /\ Len(bytes) = value.type.size
            /\ IF value.type.kind = "TYPE_ARRAY"
               THEN LET element_size == ValueTypes[value.type.base].size
                    IN  \A i \in DOMAIN value.elements :
                           SubSeq(bytes, (i - 1) * element_size + 1, i * element_size)
                              = C23_Scalar(value.elements[i])
               ELSE bytes = C23_Scalar(value)

\* The array [3]u8 {1, 2, 3} was serialised as 01 02 03 and, in another
\* run of the function, a negative two-byte integer as its two's complement.
C23_Witness ==
    /\ last_op.op = "value_to_new_bytes"
    /\ last_op.value.type.kind = "TYPE_ARRAY"
    /\ last_op.value.type.count = 3
    /\ last_op.value.elements[1].integer = 1
    /\ last_op.value.elements[2].integer = 2
    /\ last_op.value.elements[3].integer = 3
    /\ last_op.bytes = <<1, 2, 3>>

\* The last evaluation was of a cast of a literal to an integer type.
C24_IsIntegerCast ==
    /\ last_op.op = "eval_rvalue"
    /\ last_op.expr.kind = "TIR_EXPR_CAST"
    /\ type_is_integer(last_op.expr.type)

\* The number a literal operand stands for.
C24_Source ==
    IF last_op.expr.expr.kind = "TIR_EXPR_BOOLEAN"
    THEN (IF last_op.expr.expr.boolean THEN 1 ELSE 0)
    ELSE last_op.expr.expr.integer

(***************************************************************************)
(* C24: the compile-time cast of a bool, byte or sized integer value v to  *)
(* an integer type T of w bits yields the integer of [min(T), max(T)]      *)
(* that is congruent to v modulo 2^w.                                      *)
(***************************************************************************)
C24_CastCongruent ==
    C24_IsIntegerCast =>
        LET type == last_op.expr.type
            modulus == C23_Pow256(type.size)
            min == IF type.kind \in {"TYPE_S8", "TYPE_S16"} THEN 0 - (modulus \div 2)
                   ELSE 0
            max == min + modulus - 1
        IN  /\ diag = NoDiag
            /\ last_op.value.type = type
            /\ last_op.value.integer >= min
            /\ last_op.value.integer <= max
            /\ \E k \in (0 - 256) .. 256 :
                  last_op.value.integer - C24_Source = k * modulus

\* A negative s8 was sign-extended to the u16 of the same residue.
C24_Witness ==
    /\ C24_IsIntegerCast
    /\ last_op.expr.type.kind = "TYPE_U16"
    /\ last_op.expr.expr.type.kind = "TYPE_S8"
    /\ last_op.expr.expr.integer = 0 - 1
    /\ last_op.value.integer = 65535

(***************************************************************************)
(* Binary expressions over literals: resolve_expr_binary_arithmetic,       *)
(* resolve_expr_binary_bitwise, resolve_expr_binary_compare_equality and   *)
(* resolve_expr_binary_compare_order (src/resolve.c) with their constant   *)
(* folding.  The expression is resolved leaf first: the left operand is    *)
(* the expression resolved last, the right operand a literal.              *)
(***************************************************************************)
\* The binary operators an expression holds at most.
MaxOperators == 2

type_can_compare_order(type) ==
    \/ type.kind = "TYPE_BOOL"
    \/ type.kind = "TYPE_BYTE"
    \/ type_is_integer(type)
    \/ type.kind = "TYPE_POINTER"

expr_new_binary(type, op, lhs, rhs) ==
    [kind |-> "EXPR_BINARY", type |-> type, op |-> op, lhs |-> lhs, rhs |-> rhs]

\* The resolved expression as the evaluator reads it: its type behind the
\* address.
RECURSIVE evaluated_expr(_, _)
evaluated_expr(heap, expr) ==
    CASE expr.kind = "EXPR_INTEGER" ->
            [kind |-> "TIR_EXPR_INTEGER", type |-> heap[expr.type],
             integer |-> expr.integer]
      [] expr.kind = "EXPR_BOOLEAN" ->
            [kind |-> "TIR_EXPR_BOOLEAN", type |-> heap[expr.type],
             boolean |-> expr.boolean]
      [] expr.kind = "EXPR_BINARY" ->
            [kind |-> "TIR_EXPR_BINARY", type |-> heap[expr.type], op |-> expr.op,
             lhs |-> evaluated_expr(heap, expr.lhs),
             rhs |-> evaluated_expr(heap, expr.rhs)]
      [] expr.kind = "EXPR_ARRAY_LIST" ->
            [kind |-> "TIR_EXPR_LITERAL_ARRAY", type |-> heap[expr.type],
             elements |-> [i \in DOMAIN expr.elements |->
                              evaluated_expr(heap, expr.elements[i])],
             ellipsis |-> IF expr.ellipsis = NoExpr THEN NoExpr
                          ELSE evaluated_expr(heap, expr.ellipsis)]

invalid_arguments(lhs, rhs, op) ==
    [msg |-> "invalid arguments in binary expression", lhs |-> lhs, rhs |-> rhs,
     op |-> op]

\* The fold of the arithmetic and bitwise operators: the evaluator's value
\* is read as an integer.  stray is what value->data.integer yields for a
\* value that holds no integer: NULL for a fault, or some number.
constant_fold_integer(heap, binary, ndebug, stray) ==
    LET folded(value) ==
            LET is_integer == type_is_any_integer(value.value.type)
                integer == IF is_integer THEN value.value.integer ELSE stray
            IN  IF value.diag # NoDiag THEN [expr |-> NoExpr, diag |-> value.diag]
                ELSE IF ~ndebug /\ ~is_integer
                THEN [expr |-> NoExpr,
                      diag |-> [msg |-> "assertion failed",
                                function |-> "resolve_expr_binary"]]
                ELSE IF integer = NULL /\ ~is_integer
                THEN [expr |-> NoExpr,
                      diag |-> fatal("segmentation fault", "data.integer")]
                ELSE [expr |-> [kind |-> "EXPR_INTEGER", type |-> binary.type,
                                integer |-> integer],
                      diag |-> NoDiag]
    IN  IF binary.lhs.kind # "EXPR_INTEGER" \/ binary.rhs.kind # "EXPR_INTEGER"
        THEN [expr |-> binary, diag |-> NoDiag]
        ELSE CHOOSE result \in
                {folded(value) :
                    value \in {eval_rvalue(evaluated_expr(heap, binary), ndebug)}} : TRUE

\* The fold of the comparison operators: the evaluator's value is a boolean.
constant_fold_boolean(heap, binary, ndebug) ==
    LET folded(value) ==
            IF value.diag # NoDiag THEN [expr |-> NoExpr, diag |-> value.diag]
            ELSE [expr |-> [kind |-> "EXPR_BOOLEAN", type |-> 2,
                            boolean |-> value.value.boolean],
                  diag |-> NoDiag]
    IN  IF binary.lhs.kind # "EXPR_INTEGER" \/ binary.rhs.kind # "EXPR_INTEGER"
        THEN [expr |-> binary, diag |-> NoDiag]
        ELSE CHOOSE result \in
                {folded(value) :
                    value \in {eval_rvalue(evaluated_expr(heap, binary), ndebug)}} : TRUE

\* The operators by the function that resolves them.
ArithmeticOperators == {"BOP_ADD", "BOP_SUB", "BOP_MUL", "BOP_DIV"}

BitwiseOperators == {"BOP_BITOR", "BOP_BITXOR", "BOP_BITAND"}

EqualityOperators == {"BOP_EQ", "BOP_NE"}

OrderOperators == {"BOP_LE", "BOP_LT", "BOP_GE", "BOP_GT"}

\* resolve_expr_binary over resolved operands: the operands after the
\* implicit casts, the node before folding, and the expression returned.
resolve_expr_binary(heap, op, lhs0, rhs0, ndebug, stray) ==
    LET failed(diagnostic) ==
            [lhs |-> NoExpr, rhs |-> NoExpr, unfolded |-> NoExpr, expr |-> NoExpr,
             diag |-> diagnostic]
        lhs_cast == shallow_implicit_cast(heap, rhs0.type, lhs0, NULL)
        lhs == lhs_cast.expr
        rhs_cast == shallow_implicit_cast(heap, lhs.type, rhs0, NULL)
        rhs == rhs_cast.expr
        type == heap[lhs.type]
        invalid == invalid_arguments(type.name, heap[rhs.type].name, op)
        returned(binary, folded) ==
            folded @@ [lhs |-> lhs, rhs |-> rhs, unfolded |-> binary]
        arithmetic ==
            LET binary == expr_new_binary(lhs.type, op, lhs, rhs)
            IN  IF lhs.type # rhs.type \/ ~type_is_any_integer(type)
                THEN failed(invalid)
                ELSE returned(binary,
                              constant_fold_integer(heap, binary, ndebug, stray))
        bitwise ==
            LET binary == expr_new_binary(lhs.type, op, lhs, rhs)
            IN  IF lhs.type # rhs.type THEN failed(invalid)
                ELSE IF type.size = SIZEOF_UNSIZED
                THEN failed(fatal("unsized types in binary expression have no bit-representation",
                                  type.name))
                ELSE IF ~(type.kind = "TYPE_BOOL" \/ type.kind = "TYPE_BYTE"
                            \/ type_is_any_integer(type))
                THEN failed(invalid)
                ELSE returned(binary,
                              constant_fold_integer(heap, binary, ndebug, stray))
        compare(can_compare) ==
            LET binary == expr_new_binary(2, op, lhs, rhs)
            IN  IF lhs.type # rhs.type THEN failed(invalid)
                ELSE IF ~can_compare THEN failed(invalid)
                ELSE returned(binary, constant_fold_boolean(heap, binary, ndebug))
    IN  IF lhs_cast.diag # NoDiag THEN failed(lhs_cast.diag)
        ELSE IF rhs_cast.diag # NoDiag THEN failed(rhs_cast.diag)
        ELSE CASE op \in ArithmeticOperators -> arithmetic
               [] op \in BitwiseOperators -> bitwise
               [] op \in EqualityOperators -> compare(type_can_compare_equality(type))
               [] op \in OrderOperators -> compare(type_can_compare_order(type))

\* The literals of the expressions resolved, by the address of their type
\* in CastTypes, and the boolean literals.
BinaryOperands ==
    LET integer(type, i) == [kind |-> "EXPR_INTEGER", type |-> type, integer |-> i]
    IN  {integer(4, i) : i \in {2, 3, 4}}
          \cup {integer(5, i) : i \in {0 - 128, 0 - 1}}
          \cup {integer(3, i) : i \in {15, 240}}
          \cup {integer(7, i) : i \in {3, 300}}
          \cup {[kind |-> "EXPR_BOOLEAN", type |-> 2, boolean |-> TRUE]}

\* What reading the integer of a value that holds none yields.
StrayIntegers == {NULL, 255}

\* The leftmost operand of an expression is resolved, by a compiler built
\* with or without assertions.
ResolveExprOperand ==
    /\ Running
    /\ last_op = NoOp
    /\ \E expr \in BinaryOperands, ndebug \in BOOLEAN :
          last_op' = [op |-> "resolve_expr_operand", expr |-> expr,
                      ndebug |-> ndebug, operators |-> 0]
    /\ UNCHANGED <<OthersOfEval, diag>>

\* A binary expression is resolved whose left operand is the expression
\* resolved last and whose right operand is a literal.  The evaluator has
\* no untyped integers, so one operand at least has a sized type.
ResolveExprBinary ==
    /\ Running
    /\ last_op.op \in {"resolve_expr_operand", "resolve_expr_binary"}
    /\ last_op.operators < MaxOperators
    /\ \E op \in ArithmeticOperators \cup BitwiseOperators
                    \cup EqualityOperators \cup OrderOperators,
          rhs \in BinaryOperands :
          /\ CastTypes[last_op.expr.type].kind # "TYPE_INTEGER"
                \/ CastTypes[rhs.type].kind # "TYPE_INTEGER"
          /\ \E stray \in IF /\ op \in BitwiseOperators
                             /\ CastTypes[rhs.type].kind = "TYPE_BYTE"
                             /\ last_op.expr.type = rhs.type
                          THEN StrayIntegers ELSE {NULL} :
                \E res \in {resolve_expr_binary(CastTypes, op, last_op.expr, rhs,
                                                 last_op.ndebug, stray)} :
                    /\ last_op' = [op |-> "resolve_expr_binary", bop |-> op,
                                   lhs |-> res.lhs, rhs |-> res.rhs,
                                   unfolded |-> res.unfolded, expr |-> res.expr,
                                   ndebug |-> last_op.ndebug,
                                   operators |-> last_op.operators + 1]
                    /\ diag' = res.diag
    /\ UNCHANGED OthersOfEval

NextBinary ==
    \/ ResolveExprOperand
    \/ ResolveExprBinary

SpecBinary == InitLiterals /\ [][NextBinary]_vars

\* A binary expression over two integer literals was resolved.
C25_LiteralOperands ==
    /\ last_op.op = "resolve_expr_binary"
    /\ last_op.lhs.kind = "EXPR_INTEGER"
    /\ last_op.rhs.kind = "EXPR_INTEGER"

\* What the evaluator gives for the expression before folding.
C25_Evaluated ==
    eval_rvalue(evaluated_expr(CastTypes, last_op.unfolded), last_op.ndebug)

(***************************************************************************)
(* C25: resolving an arithmetic, bitwise or comparison expression over two *)
(* integer literals returns one Integer literal, or one Boolean literal    *)
(* for a comparison, of the value the evaluator gives for the expression   *)
(* before folding; where the evaluator reports a diagnostic instead, that  *)
(* diagnostic is the resolver's.                                           *)
(***************************************************************************)
C25_Folded ==
    C25_LiteralOperands =>
        LET value == C25_Evaluated
        IN  IF value.diag # NoDiag THEN diag = value.diag
            ELSE /\ diag = NoDiag
                 /\ IF last_op.bop \in EqualityOperators \cup OrderOperators
                    THEN /\ last_op.expr.kind = "EXPR_BOOLEAN"
                         /\ last_op.expr.boolean = value.value.boolean
                    ELSE /\ last_op.expr.kind = "EXPR_INTEGER"
                         /\ last_op.expr.type = last_op.unfolded.type
                         /\ last_op.expr.integer
                               = (IF value.value.type.kind = "TYPE_BYTE"
                                  THEN value.value.byte ELSE value.value.integer)

\* The same for operands of the integer types, bytes left aside.
C25_FoldedIntegers ==
    (C25_LiteralOperands /\ CastTypes[last_op.lhs.type].kind # "TYPE_BYTE")
        => C25_Folded

\* 2u8 * 3u8 + 4u8 was resolved to the literal 10 of type u8.
C25_Nested ==
    /\ C25_LiteralOperands
    /\ last_op.operators = 2
    /\ last_op.bop = "BOP_ADD"
    /\ last_op.lhs = [kind |-> "EXPR_INTEGER", type |-> 4, integer |-> 6]
    /\ last_op.rhs = [kind |-> "EXPR_INTEGER", type |-> 4, integer |-> 4]
    /\ last_op.expr = [kind |-> "EXPR_INTEGER", type |-> 4, integer |-> 10]

(***************************************************************************)
(* Slices of arrays in constant expressions: the TIR_EXPR_SLICE case of    *)
(* eval_rvalue (src/eval.c) and value_new_slice (src/tir.c).               *)
(***************************************************************************)
\* The largest index written in a slice expression.
MaxIndex == 4

\* The offset of the sliced array in its static object.
ArrayOffset == 16

\* The slice expressions evaluated: a[begin:end] for a constant a of an
\* array type of ValueTypes.
SliceExprs ==
    LET integer(i) == [kind |-> "TIR_EXPR_INTEGER", type |-> type_new_usize,
                       integer |-> i]
        element(base) == [type |-> ValueTypes[base], integer |-> 0]
        array(type) ==
            [kind |-> "TIR_EXPR_IDENTIFIER", type |-> ValueTypes[type],
             identifier |->
                [kind |-> "SYMBOL_CONSTANT", name |-> "a", type |-> ValueTypes[type],
                 address |-> [kind |-> "ADDRESS_STATIC", name |-> "a",
                              offset |-> ArrayOffset],
                 value |-> [type |-> ValueTypes[type],
                            elements |-> [i \in 1 .. ValueTypes[type].count |->
                                             element(ValueTypes[type].base)]]]]
    IN  {[kind |-> "TIR_EXPR_SLICE",
          type |-> type_new_slice(ValueTypes, ValueTypes[type].base),
          lhs |-> array(type), begin |-> integer(begin), end |-> integer(end)] :
            type \in {a \in DOMAIN ValueTypes : ValueTypes[a].kind = "TYPE_ARRAY"},
            begin \in 0 .. MaxIndex, end \in 0 .. MaxIndex}

\* A slice expression is evaluated.
EvalRvalueSlice ==
    /\ Running
    /\ \E expr \in SliceExprs, ndebug \in BOOLEAN :
          \E res \in {eval_rvalue(expr, ndebug)} :
              /\ last_op' = [op |-> "eval_rvalue", expr |-> expr,
                             ndebug |-> ndebug, value |-> res.value]
              /\ diag' = res.diag
    /\ UNCHANGED OthersOfEval

NextSlices == EvalRvalueSlice

SpecSlices == InitLiterals /\ [][NextSlices]_vars

\* The last evaluation was of a slice of an array.
C26_IsSlice ==
    /\ last_op.op = "eval_rvalue"
    /\ last_op.expr.kind = "TIR_EXPR_SLICE"

\* The bounds of the last slice lie in the array, in order.
C26_InBounds ==
    /\ 0 <= last_op.expr.begin.integer
    /\ last_op.expr.begin.integer <= last_op.expr.end.integer
    /\ last_op.expr.end.integer <= last_op.expr.lhs.type.count

\* The slice value the last evaluation is to return.
C26_Returned ==
    /\ diag = NoDiag
    /\ last_op.value.type = last_op.expr.type
    /\ last_op.value.pointer.pointer
          = [kind |-> "ADDRESS_STATIC", name |-> "a",
             offset |-> ArrayOffset + last_op.expr.begin.integer
                           * ValueTypes[last_op.expr.type.base].size]
    /\ last_op.value.count.integer
          = last_op.expr.end.integer - last_op.expr.begin.integer

(***************************************************************************)
(* C26: evaluating a[begin:end] for an array a of count n returns, for     *)
(* every 0 <= begin <= end <= n, the slice at a's static address advanced  *)
(* by begin * element size with the count end - begin; for every other     *)
(* begin and end it reports a diagnostic; and no slice value has a         *)
(* negative count.                                                         *)
(***************************************************************************)
C26_Slice ==
    C26_IsSlice =>
        /\ IF C26_InBounds THEN C26_Returned
           ELSE /\ diag # NoDiag
                /\ diag.msg \in {"index out-of-bounds", "index out-of-range"}
        /\ diag = NoDiag => last_op.value.count.integer >= 0

\* What the evaluator does: a first index below the count is required, and
\* the order of the two indices is left to the assertions of the value
\* constructors.
C26_SliceBelowCount ==
    C26_IsSlice =>
        LET begin == last_op.expr.begin.integer
            end == last_op.expr.end.integer
            count == last_op.expr.lhs.type.count
        IN  IF begin < count /\ begin <= end /\ end <= count THEN C26_Returned
            ELSE IF begin >= count \/ end > count
            THEN diag.msg = "index out-of-bounds"
            ELSE IF last_op.ndebug
            THEN diag = NoDiag /\ last_op.value.count.integer < 0
            ELSE diag.msg = "assertion failed"

\* The empty slice at the end of an array was refused.
C26_EmptyAtEnd ==
    /\ C26_IsSlice
    /\ last_op.expr.begin.integer = last_op.expr.lhs.type.count
    /\ last_op.expr.end.integer = last_op.expr.lhs.type.count
    /\ diag.msg = "index out-of-bounds"

\* A slice value of a negative count was built.
C26_NegativeCount ==
    /\ C26_IsSlice
    /\ diag = NoDiag
    /\ last_op.value.count.integer < 0

(***************************************************************************)
(* Array list literals: the array branch of resolve_expr_list              *)
(* (src/resolve.c), and the TIR_EXPR_LITERAL_ARRAY case of eval_rvalue     *)
(* (src/eval.c) with value_new_array (src/tir.c) for the literal resolved. *)
(***************************************************************************)
\* The largest count of an array type written in a list literal; a literal
\* has up to one element more.
MaxListCount == 3

\* The builtin types and the array types [0]u8 .. [MaxListCount]u8, by
\* address.
ListTypes ==
    LET builtin == <<type_new_void, type_new_bool, type_new_byte, type_new_u8,
                     type_new_s8, type_new_usize, type_new_integer, type_new_any>>
    IN  builtin \o [count \in 1 .. MaxListCount + 1 |->
                       type_new_array(builtin, count - 1, 4)]

check_type_compatibility(heap, actual, expected) ==
    IF actual # expected
    THEN [msg |-> "incompatible type", actual |-> heap[actual].name,
          expected |-> heap[expected].name]
    ELSE NoDiag

expr_new_array_list(type, elements, ellipsis) ==
    [kind |-> "EXPR_ARRAY_LIST", type |-> type, elements |-> elements,
     ellipsis |-> ellipsis]

\* The test of the element count that refuses a literal without an
\* ellipsis only.
list_count_mismatch(count, elements_count, has_ellipsis) ==
    count # elements_count /\ ~has_ellipsis

\* resolve_expr_list for an array type over resolved elements; ellipsis is
\* NoExpr where the literal has none.
resolve_expr_list(heap, type, elements, ellipsis) ==
    LET failed(diagnostic) == [expr |-> NoExpr, diag |-> diagnostic]
        base == heap[type].base
        resolved_element(element) ==
            LET cast == shallow_implicit_cast(heap, base, element, NULL)
            IN  IF cast.diag # NoDiag THEN cast
                ELSE [expr |-> cast.expr,
                      diag |-> check_type_compatibility(heap, cast.expr.type, base)]
        resolved_elements == [i \in DOMAIN elements |-> resolved_element(elements[i])]
        failures == {i \in DOMAIN elements : resolved_elements[i].diag # NoDiag}
        resolved_ellipsis ==
            IF ellipsis = NoExpr THEN [expr |-> NoExpr, diag |-> NoDiag]
            ELSE resolved_element(ellipsis)
    IN  IF failures # {}
        THEN failed(resolved_elements[CHOOSE i \in failures :
                                         \A j \in failures : i <= j].diag)
        ELSE IF resolved_ellipsis.diag # NoDiag THEN failed(resolved_ellipsis.diag)
        ELSE IF list_count_mismatch(heap[type].count, Len(elements),
                                    ellipsis # NoExpr)
        THEN failed([msg |-> "array created with the wrong number of elements",
                     type |-> heap[type].name, elements |-> Len(elements),
                     expected |-> heap[type].count])
        ELSE [expr |-> expr_new_array_list(
                           type, [i \in DOMAIN elements |-> resolved_elements[i].expr],
                           resolved_ellipsis.expr),
              diag |-> NoDiag]

\* The elements written: a u8 literal, an untyped literal, and a boolean,
\* which no array of u8 takes.
ListElements ==
    {[kind |-> "EXPR_INTEGER", type |-> 4, integer |-> 1],
     [kind |-> "EXPR_INTEGER", type |-> 7, integer |-> 2],
     [kind |-> "EXPR_BOOLEAN", type |-> 2, boolean |-> TRUE]}

\* The ellipsis elements written, NoExpr for none.
ListEllipses ==
    {NoExpr, [kind |-> "EXPR_INTEGER", type |-> 4, integer |-> 9],
     [kind |-> "EXPR_INTEGER", type |-> 7, integer |-> 300]}

RECURSIVE ListsUpTo(_)
ListsUpTo(n) ==
    IF n = 0 THEN {<<>>}
    ELSE ListsUpTo(n - 1)
            \cup {Append(list, element) :
                     list \in {l \in ListsUpTo(n - 1) : Len(l) = n - 1},
                     element \in ListElements}

\* The list literal of a constant's initializer is resolved.
ResolveExprList ==
    /\ Running
    /\ last_op = NoOp
    /\ \E type \in {t \in DOMAIN ListTypes : ListTypes[t].kind = "TYPE_ARRAY"},
          elements \in ListsUpTo(MaxListCount + 1), ellipsis \in ListEllipses :
          \E res \in {resolve_expr_list(ListTypes, type, elements, ellipsis)} :
              /\ last_op' = [op |-> "resolve_expr_list", type |-> type,
                             elements |-> elements, ellipsis |-> ellipsis,
                             expr |-> res.expr]
              /\ diag' = res.diag
    /\ UNCHANGED OthersOfEval

\* The literal resolved is evaluated.
EvalRvalueList ==
    /\ Running
    /\ last_op.op = "resolve_expr_list"
    /\ \E ndebug \in BOOLEAN :
          \E res \in {eval_rvalue(evaluated_expr(ListTypes, last_op.expr), ndebug)} :
              /\ last_op' = [op |-> "eval_rvalue", expr |-> last_op.expr,
                             ndebug |-> ndebug, value |-> res.value]
              /\ diag' = res.diag
    /\ UNCHANGED OthersOfEval

NextLists ==
    \/ ResolveExprList
    \/ EvalRvalueList

SpecLists == InitLiterals /\ [][NextLists]_vars

\* An accepted literal has as many elements as its type, or fewer and an
\* ellipsis.
C27_Accepted ==
    (last_op.op = "resolve_expr_list" /\ diag = NoDiag) =>
        \/ Len(last_op.elements) = ListTypes[last_op.type].count
        \/ /\ last_op.ellipsis # NoExpr
           /\ Len(last_op.elements) <= ListTypes[last_op.type].count

\* The array value of an accepted literal: the elements in order, then the
\* ellipsis value up to the count of the type.
C27_Evaluated ==
    (last_op.op = "eval_rvalue" /\ last_op.expr.kind = "EXPR_ARRAY_LIST") =>
        LET count == ListTypes[last_op.expr.type].count
            explicit == Len(last_op.expr.elements)
        IN  /\ diag = NoDiag
            /\ Len(last_op.value.elements) = count
            /\ \A i \in 1 .. count :
                  last_op.value.elements[i].integer
                     = (IF i <= explicit THEN last_op.expr.elements[i].integer
                        ELSE last_op.expr.ellipsis.integer)

(***************************************************************************)
(* C27: the resolver accepts an array list literal only if the number of   *)
(* its elements is the count of the array type, or it has an ellipsis and  *)
(* no more elements than the count; and evaluating an accepted literal     *)
(* gives an array value of exactly the count of the type: the elements in  *)
(* order, then copies of the ellipsis value.                               *)
(***************************************************************************)
C27_ListLiteral == C27_Accepted /\ C27_Evaluated

\* The same for the literals with no more elements than the type counts.
C27_ListLiteralWithin ==
    /\ (last_op.op = "resolve_expr_list"
          /\ Len(last_op.elements) <= ListTypes[last_op.type].count) => C27_Accepted
    /\ (last_op.op = "eval_rvalue" /\ last_op.expr.kind = "EXPR_ARRAY_LIST"
          /\ Len(last_op.expr.elements) <= ListTypes[last_op.expr.type].count)
          => C27_Evaluated

\* A literal with more elements than its type counts and an ellipsis was
\* accepted.
C27_TooMany ==
    /\ last_op.op = "resolve_expr_list"
    /\ diag = NoDiag
    /\ last_op.ellipsis # NoExpr
    /\ Len(last_op.elements) > ListTypes[last_op.type].count

\* An array value with more elements than its type counts was built.
C27_Oversized ==
    /\ last_op.op = "eval_rvalue"
    /\ last_op.expr.kind = "EXPR_ARRAY_LIST"
    /\ diag = NoDiag
    /\ Len(last_op.value.elements) > ListTypes[last_op.expr.type].count

\* One element and an ellipsis filled an array of three.
C27_Filled ==
    /\ last_op.op = "eval_rvalue"
    /\ last_op.expr.kind = "EXPR_ARRAY_LIST"
    /\ diag = NoDiag
    /\ Len(last_op.expr.elements) = 1
    /\ Len(last_op.value.elements) = 3
    /\ last_op.value.elements[3].integer = 9

(***************************************************************************)
(* Constant declarations and slice list literals: resolve_decl_constant,   *)
(* the slice branch of resolve_expr_list and the member loop of            *)
(* complete_struct (src/resolve.c).  Every constant declared here at the   *)
(* top has a slice list literal or an integer as its initializer; the      *)
(* type of the list is []u8 or []bar[[u8]] for a struct template bar,      *)
(* whose members are variables and constants.  instance_stack holds the    *)
(* declarations and struct completions in progress, instance_returns the   *)
(* template instances cached, symbol_heap the backing arrays created and   *)
(* stmt_count the constants declared at the top so far.                    *)
(***************************************************************************)
\* The constants declared one after the other at the top.
MaxConstants == 2

\* The members of the struct template at most.
MaxMembers == 2

\* A member is a variable, a constant with an integer initializer or a
\* constant with a slice list literal of type []u8 as its initializer.
MemberKinds == {"CST_MEMBER_VARIABLE", "CST_MEMBER_CONSTANT", "CST_MEMBER_CONSTANT_LIST"}

RECURSIVE MembersUpTo(_)
MembersUpTo(n) ==
    IF n = 0 THEN {<<>>}
    ELSE MembersUpTo(n - 1)
            \cup {Append(members, kind) :
                     members \in {m \in MembersUpTo(n - 1) : Len(m) = n - 1},
                     kind \in MemberKinds}

resolver_is_global(self) == self.current_function = NULL

\* The entry of resolve_decl_constant: the frame of the declaration, at
\* the resolution of its initializer.
resolve_decl_constant_entry(name, expr, typespec) ==
    [kind |-> "constant", name |-> name, expr |-> expr, typespec |-> typespec,
     pc |-> IF expr = "list" THEN "typespec" ELSE "return"]

\* The backing array of a slice list literal: its kind and storage by the
\* resolver's scope and flag.
slice_list_elements(self, id, within) ==
    LET is_global == resolver_is_global(self)
        is_static == is_global \/ self.is_within_const_decl
    IN  [name |-> "__slice_list_elements_" \o fmt_zu(id),
         kind |-> IF self.is_within_const_decl THEN "SYMBOL_CONSTANT"
                  ELSE "SYMBOL_VARIABLE",
         address |-> IF is_static THEN "ADDRESS_STATIC" ELSE "ADDRESS_LOCAL",
         has_value |-> is_static,
         is_within_const_decl |-> self.is_within_const_decl,
         within |-> within]

ConstantsTop == instance_stack[Len(instance_stack)]

ConstantsPop == SubSeq(instance_stack, 1, Len(instance_stack) - 1)

OthersOfConstants ==
    <<vars_types, symbol_tables, sym_inserted, resolved_count, incomplete_functions,
      vars_imports, block_stack, defer_heap>>

\* resolve_decl_constant is entered for a declaration at the top, at
\* module level or in the body of a function.
ResolveDeclConstant ==
    /\ Running
    /\ instance_stack = <<>>
    /\ stmt_count < MaxConstants
    /\ \E current_function \in {NULL, 1}, expr \in {"integer", "list"},
          typespec \in {"[]u8", "[]bar[[u8]]"} :
          /\ expr = "integer" => typespec = "[]u8"
          /\ resolver' = [current_function |-> current_function,
                          is_within_const_decl |-> TRUE]
          /\ instance_stack' =
                <<resolve_decl_constant_entry("c" \o fmt_zu(stmt_count), expr, typespec)>>
    /\ stmt_count' = stmt_count + 1
    /\ last_op' = [op |-> "resolve_decl_constant"]
    /\ UNCHANGED <<OthersOfConstants, instance_returns, symbol_heap, resolve_state,
                   static_symbols, diag>>

\* resolve_typespec of the list's type: the first use of []bar[[u8]]
\* instantiates the template, caches the instance and completes the struct.
ResolveTypespec ==
    /\ Running
    /\ instance_stack # <<>>
    /\ ConstantsTop.kind = "constant"
    /\ ConstantsTop.pc = "typespec"
    /\ LET waiting == [instance_stack EXCEPT ![Len(instance_stack)].pc = "list"]
           instantiated == /\ ConstantsTop.typespec = "[]bar[[u8]]"
                           /\ "bar[[u8]]" \notin instance_returns
       IN  /\ instance_stack' =
                 IF instantiated
                 THEN Append(waiting, [kind |-> "struct", name |-> "bar[[u8]]", next |-> 1])
                 ELSE waiting
           /\ instance_returns' =
                 IF instantiated THEN instance_returns \cup {"bar[[u8]]"}
                 ELSE instance_returns
           /\ last_op' = [op |-> "resolve_typespec", instantiated |-> instantiated]
    /\ UNCHANGED <<OthersOfConstants, resolver, symbol_heap, stmt_count, resolve_state,
                   static_symbols, diag>>

\* complete_struct reaches its next member: a variable is added to the
\* type, for a constant resolve_decl_constant is entered.
CompleteStructNextMember ==
    /\ Running
    /\ instance_stack # <<>>
    /\ ConstantsTop.kind = "struct"
    /\ ConstantsTop.next <= Len(resolve_state.members)
    /\ LET member == resolve_state.members[ConstantsTop.next]
           advanced == [instance_stack EXCEPT ![Len(instance_stack)].next = @ + 1]
           name == "bar[[u8]]::m" \o fmt_zu(ConstantsTop.next)
       IN  IF member = "CST_MEMBER_VARIABLE"
           THEN /\ instance_stack' = advanced
                /\ UNCHANGED resolver
           ELSE /\ instance_stack' =
                      Append(advanced,
                             resolve_decl_constant_entry(
                                 name,
                                 IF member = "CST_MEMBER_CONSTANT" THEN "integer"
                                 ELSE "list",
                                 "[]u8"))
                /\ resolver' = [resolver EXCEPT !.is_within_const_decl = TRUE]
    /\ last_op' = [op |-> "complete_struct"]
    /\ UNCHANGED <<OthersOfConstants, instance_returns, symbol_heap, stmt_count,
                   resolve_state, static_symbols, diag>>

\* complete_struct returns after its last member.
CompleteStructReturn ==
    /\ Running
    /\ instance_stack # <<>>
    /\ ConstantsTop.kind = "struct"
    /\ ConstantsTop.next > Len(resolve_state.members)
    /\ instance_stack' = ConstantsPop
    /\ last_op' = [op |-> "complete_struct_return"]
    /\ UNCHANGED <<OthersOfConstants, resolver, instance_returns, symbol_heap, stmt_count,
                   resolve_state, static_symbols, diag>>

\* The slice branch of resolve_expr_list after the type of the list is
\* resolved: the backing array is created and, when static, registered.
ResolveExprListSlice ==
    /\ Running
    /\ instance_stack # <<>>
    /\ ConstantsTop.kind = "constant"
    /\ ConstantsTop.pc = "list"
    /\ LET array == slice_list_elements(resolver, Len(symbol_heap), ConstantsTop.name)
       IN  /\ symbol_heap' = Append(symbol_heap, array)
           /\ static_symbols' = IF array.address = "ADDRESS_STATIC"
                                THEN Append(static_symbols, array.name)
                                ELSE static_symbols
           /\ last_op' = [op |-> "resolve_expr_list", array |-> array]
    /\ instance_stack' = [instance_stack EXCEPT ![Len(instance_stack)].pc = "return"]
    /\ UNCHANGED <<OthersOfConstants, resolver, instance_returns, stmt_count,
                   resolve_state, diag>>

\* resolve_decl_constant returns: the constant is registered and the flag
\* lowered.
ResolveDeclConstantReturn ==
    /\ Running
    /\ instance_stack # <<>>
    /\ ConstantsTop.kind = "constant"
    /\ ConstantsTop.pc = "return"
    /\ static_symbols' = Append(static_symbols, ConstantsTop.name)
    /\ resolver' = [resolver EXCEPT !.is_within_const_decl = FALSE]
    /\ instance_stack' = ConstantsPop
    /\ last_op' = [op |-> "resolve_decl_constant_return"]
    /\ UNCHANGED <<OthersOfConstants, instance_returns, symbol_heap, stmt_count,
                   resolve_state, diag>>

\* The module: the members of the struct template bar.
InitConstants ==
    /\ type_heap = <<>>
    /\ unique_calls = {}
    /\ symbol_heap = <<>>
    /\ symbol_tables = <<>>
    /\ sym_inserted = {}
    /\ last_op = NoOp
    /\ instance_stack = <<>>
    /\ instance_returns = {}
    /\ resolved_count = <<>>
    /\ incomplete_functions = <<>>
    /\ import_graph = <<>>
    /\ module_cache = <<>>
    /\ import_stack = <<>>
    /\ resolver = [current_function |-> NULL, is_within_const_decl |-> FALSE]
    /\ block_stack = <<>>
    /\ defer_heap = <<>>
    /\ stmt_count = 0
    /\ \E members \in MembersUpTo(MaxMembers) : resolve_state = [members |-> members]
    /\ static_symbols = <<>>
    /\ diag = NoDiag

NextConstants ==
    \/ ResolveDeclConstant
    \/ ResolveTypespec
    \/ CompleteStructNextMember
    \/ CompleteStructReturn
    \/ ResolveExprListSlice
    \/ ResolveDeclConstantReturn

SpecConstants == InitConstants /\ [][NextConstants]_vars

(***************************************************************************)
(* C28: at every slice list literal inside a constant declaration the      *)
(* resolver's is_within_const_decl is true, also when resolving the        *)
(* declaration first instantiates a struct template with constant          *)
(* members: the backing array of the literal is a constant with static     *)
(* storage.                                                                *)
(***************************************************************************)
C28_WithinConstDecl ==
    last_op.op = "resolve_expr_list" =>
        /\ last_op.array.is_within_const_decl
        /\ last_op.array.kind = "SYMBOL_CONSTANT"
        /\ last_op.array.address = "ADDRESS_STATIC"

\* The same for the declarations whose resolution so far completed no
\* constant member of a template instance.
C28_WithoutMembers ==
    (/\ last_op.op = "resolve_expr_list"
     /\ \/ "bar[[u8]]" \notin instance_returns
        \/ \A i \in DOMAIN resolve_state.members :
              resolve_state.members[i] = "CST_MEMBER_VARIABLE")
        => C28_WithinConstDecl

\* The backing array of a list literal in a constant of a function body
\* became a variable on the stack.
C28_LocalArray ==
    /\ last_op.op = "resolve_expr_list"
    /\ last_op.array.within = "c0"
    /\ ~last_op.array.is_within_const_decl
    /\ last_op.array.kind = "SYMBOL_VARIABLE"
    /\ last_op.array.address = "ADDRESS_LOCAL"

(***************************************************************************)
(* The per-function state of the resolver across the bodies completed by   *)
(* the loop at the end of resolve() (src/resolve.c): current_function,     *)
(* current_rbp_offset, is_within_loop, current_defer, current_loop_defer.  *)
(* incomplete_functions is the whole buffer of queued bodies, a function   *)
(* is its position in the buffer, and resolve_state.i is the index of the  *)
(* loop.  A frame of block_stack is one resolve_block call in progress     *)
(* with what it saved and, in stmt, what the loop statement that called it *)
(* saved.                                                                  *)
(***************************************************************************)
MaxFunctions == 2
MaxNestedStmts == 3

\* The size of usize, the type of the loop variable of a range loop.
LoopVarSize == 8

resolver_new ==
    [current_function |-> NULL, current_rbp_offset |-> 0,
     is_within_loop |-> FALSE, current_defer |-> NULL,
     current_loop_defer |-> NULL]

\* resolver_reserve_storage_local: the resolver and the functions once the
\* storage is local; the subtraction is a signed one.
reserve_storage_local(self, functions, size, wraps) ==
    LET lowered == int_add(self.current_rbp_offset, 0 - ceil8zu(size), wraps)
        function == self.current_function
    IN  [resolver |-> [self EXCEPT !.current_rbp_offset = lowered.value],
         functions |->
             IF lowered.value < functions[function].local_stack_offset
             THEN [functions EXCEPT ![function].local_stack_offset = lowered.value]
             ELSE functions,
         diag |-> lowered.diag]

\* What resolve_block puts back when it returns.
resolve_block_restored(self, frame) ==
    [self EXCEPT !.current_rbp_offset = frame.save_rbp_offset,
                 !.current_defer = frame.save_current_defer]

\* The two loops before resolve_block is called on the body.
resolve_stmt_for_entered(self) ==
    [self EXCEPT !.is_within_loop = TRUE,
                 !.current_loop_defer = self.current_defer]

\* A loop over an expression that leaves is_within_loop as the body had it.
resolve_stmt_for_expr_keeps_loop(self, saved) ==
    [self EXCEPT !.current_loop_defer = saved.save_current_loop_defer]

\* What the two loops put back after resolve_block has returned.
resolve_stmt_for_range_restored(self, saved) ==
    [self EXCEPT !.current_rbp_offset = saved.save_rbp_offset,
                 !.is_within_loop = saved.save_is_within_loop,
                 !.current_loop_defer = saved.save_current_loop_defer]

resolve_stmt_for_expr_restored(self, saved) ==
    [self EXCEPT !.is_within_loop = saved.save_is_within_loop,
                 !.current_loop_defer = saved.save_current_loop_defer]

\* resolve_block on entry, called by a statement of the given kind that
\* saved the given values itself.
body_block(self, kind, saved) ==
    [kind |-> kind,
     save_rbp_offset |-> self.current_rbp_offset,
     save_current_defer |-> self.current_defer,
     stmt |-> saved, empty |-> TRUE, last |-> "none"]

\* The stack once the innermost block has pushed a resolved statement.
resolved_stmt(stack, kind) ==
    [stack EXCEPT ![Len(stack)] = [@ EXCEPT !.empty = FALSE, !.last = kind]]

OthersOfBodies == <<vars_types, vars_imports, symbol_heap, symbol_tables,
                    sym_inserted, instance_stack, instance_returns,
                    resolved_count, static_symbols>>

\* Some statement of the innermost block of a body is next.
InFunction ==
    /\ Running
    /\ block_stack # <<>>
    /\ stmt_count < MaxNestedStmts

\* resolve_decl_function up to the push of the body on the buffer: for a
\* declaration of the module before the loop has begun, and for an
\* instance of a function template named in the body being completed.
ResolveDeclFunctionQueue ==
    /\ Running
    /\ Len(incomplete_functions) < MaxFunctions
    /\ \/ block_stack = <<>> /\ ~resolve_state.draining
       \/ InFunction
    /\ \E return_void \in BOOLEAN :
          incomplete_functions' = Append(incomplete_functions,
              [return_void |-> return_void, local_stack_offset |-> 0,
               instance_of |-> resolver.current_function])
    /\ stmt_count' = IF block_stack = <<>> THEN stmt_count ELSE stmt_count + 1
    /\ block_stack' = IF block_stack = <<>> THEN block_stack
                      ELSE resolved_stmt(block_stack, "STMT_EXPR")
    /\ last_op' = [op |-> "resolve_decl_function"]
    /\ UNCHANGED <<OthersOfBodies, resolver, defer_heap, resolve_state, diag>>

\* complete_function up to the first statement of the body, for the
\* function at the index of the loop.
CompleteFunctionEnter ==
    /\ Running
    /\ block_stack = <<>>
    /\ resolve_state.i < Len(incomplete_functions)
    /\ \E ndebug \in BOOLEAN :
          LET function == resolve_state.i + 1
              asserted == /\ resolver.current_function = NULL
                          /\ resolver.current_rbp_offset = 0
                          /\ ~resolver.is_within_loop
              entered == [resolver EXCEPT !.current_function = function]
          IN  /\ last_op' = [op |-> "complete_function_enter",
                             function |-> function, entry |-> resolver]
              /\ IF ~asserted /\ ~ndebug
                 THEN /\ diag' = [msg |-> "assertion failed",
                                  function |-> "complete_function"]
                      /\ UNCHANGED <<resolver, block_stack>>
                 ELSE /\ resolver' = entered
                      /\ block_stack' = <<body_block(entered, "function", NoOp)>>
                      /\ UNCHANGED diag
    /\ resolve_state' = [resolve_state EXCEPT !.draining = TRUE]
    /\ UNCHANGED <<OthersOfBodies, incomplete_functions, defer_heap, stmt_count>>

\* resolve_decl_variable of a local: resolver_reserve_storage_local.
ResolveStmtVariable ==
    /\ InFunction
    /\ \E size \in TypeSizes, wraps \in BOOLEAN :
          \E local \in {reserve_storage_local(resolver, incomplete_functions,
                                                 size, wraps)} :
              /\ diag' = local.diag
              /\ last_op' = [op |-> "resolve_decl_variable"]
              /\ IF local.diag # NoDiag
                 THEN UNCHANGED <<resolver, incomplete_functions, block_stack,
                                  stmt_count>>
                 ELSE /\ resolver' = local.resolver
                      /\ incomplete_functions' = local.functions
                      /\ block_stack' = resolved_stmt(block_stack, "STMT_ASSIGN")
                      /\ stmt_count' = stmt_count + 1
    /\ UNCHANGED <<OthersOfBodies, defer_heap, resolve_state>>

\* resolve_stmt_break, resolve_stmt_continue and resolve_stmt_return: they
\* read the state and leave it.
ResolveStmtJump ==
    /\ InFunction
    /\ \E kind \in {"STMT_BREAK", "STMT_CONTINUE", "STMT_RETURN"} :
          IF kind # "STMT_RETURN" /\ ~resolver.is_within_loop
          THEN /\ diag' = fatal("statement outside of loop", kind)
               /\ last_op' = [op |-> "outside"]
               /\ UNCHANGED <<block_stack, stmt_count>>
          ELSE /\ block_stack' = resolved_stmt(block_stack, kind)
               /\ stmt_count' = stmt_count + 1
               /\ last_op' = [op |-> kind, defer |-> resolver.current_defer,
                              loop_defer |-> resolver.current_loop_defer]
               /\ UNCHANGED diag
    /\ UNCHANGED <<OthersOfBodies, resolver, incomplete_functions, defer_heap,
                   resolve_state>>

\* resolve_stmt_defer, resolve_stmt_if, resolve_stmt_for_range and
\* resolve_stmt_for_expr up to the first statement of the block.
ResolveStmtEnter ==
    /\ InFunction
    /\ Len(block_stack) <= MaxBlockDepth
    /\ \E kind \in {"defer", "if", "for_range", "for_expr"}, wraps \in BOOLEAN :
          \E local \in {IF kind = "for_range"
                           THEN reserve_storage_local(resolver, incomplete_functions,
                                                      LoopVarSize, wraps)
                           ELSE [resolver |-> resolver,
                                 functions |-> incomplete_functions,
                                 diag |-> NoDiag]} :
              LET saved == [save_rbp_offset |-> resolver.current_rbp_offset,
                            save_is_within_loop |-> resolver.is_within_loop,
                            save_current_loop_defer |-> resolver.current_loop_defer]
                  entered == IF kind \in {"for_range", "for_expr"}
                             THEN resolve_stmt_for_entered(local.resolver)
                             ELSE local.resolver
              IN  /\ diag' = local.diag
                  /\ last_op' = [op |-> kind]
                  /\ IF local.diag # NoDiag
                     THEN UNCHANGED <<resolver, incomplete_functions, block_stack,
                                      stmt_count>>
                     ELSE /\ resolver' = entered
                          /\ incomplete_functions' = local.functions
                          /\ block_stack' = Append(block_stack,
                                 body_block(entered, kind,
                                     IF kind \in {"for_range", "for_expr"}
                                     THEN saved ELSE NoOp))
                          /\ stmt_count' = stmt_count + 1
    /\ UNCHANGED <<OthersOfBodies, defer_heap, resolve_state>>

\* The block of a statement is resolved: resolve_block returns and the
\* statement resolver that called it finishes.
ResolveStmtLeave ==
    /\ Running
    /\ block_stack # <<>>
    /\ block.kind # "function"
    /\ \E returned \in {resolve_block_restored(resolver, block)} :
          /\ resolver' =
                CASE block.kind = "defer" ->
                         [returned EXCEPT !.current_defer = Len(defer_heap) + 1]
                  [] block.kind = "if" -> returned
                  [] block.kind = "for_range" ->
                         resolve_stmt_for_range_restored(returned, block.stmt)
                  [] block.kind = "for_expr" ->
                         resolve_stmt_for_expr_restored(returned, block.stmt)
          /\ defer_heap' =
                IF block.kind = "defer"
                THEN Append(defer_heap, [prev |-> returned.current_defer,
                                         function |-> returned.current_function,
                                         is_within_loop |-> returned.is_within_loop])
                ELSE defer_heap
    /\ block_stack' = resolved_stmt(SubSeq(block_stack, 1, Len(block_stack) - 1),
                                    block.kind)
    /\ last_op' = [op |-> "resolve_block", kind |-> block.kind]
    /\ UNCHANGED <<OthersOfBodies, incomplete_functions, stmt_count,
                   resolve_state, diag>>

\* The body is resolved: the rest of complete_function, and the step of
\* the loop when it returns.
CompleteFunctionLeave ==
    /\ Running
    /\ block_stack # <<>>
    /\ block.kind = "function"
    /\ \E ndebug \in BOOLEAN :
          \E returned \in {[resolve_block_restored(resolver, block)
                               EXCEPT !.current_function = NULL]} :
              LET function == incomplete_functions[resolver.current_function]
                  non_void_returning_func_does_not_end_with_return ==
                      /\ ~function.return_void
                      /\ (block.empty \/ block.last # "STMT_RETURN")
              IN  /\ resolver' = returned
                  /\ diag' = IF returned.current_rbp_offset # 0 /\ ~ndebug
                             THEN [msg |-> "assertion failed",
                                   function |-> "complete_function"]
                             ELSE IF non_void_returning_func_does_not_end_with_return
                             THEN non_void_without_return
                             ELSE NoDiag
    /\ last_op' = [op |-> "complete_function",
                   function |-> resolver.current_function]
    /\ block_stack' = <<>>
    /\ resolve_state' = [resolve_state EXCEPT !.i = @ + 1]
    /\ UNCHANGED <<OthersOfBodies, incomplete_functions, defer_heap, stmt_count>>

InitBodies ==
    /\ type_heap = <<>>
    /\ unique_calls = {}
    /\ symbol_heap = <<>>
    /\ symbol_tables = <<>>
    /\ sym_inserted = {}
    /\ last_op = NoOp
    /\ instance_stack = <<>>
    /\ instance_returns = {}
    /\ resolved_count = <<>>
    /\ incomplete_functions = <<>>
    /\ import_graph = <<>>
    /\ module_cache = <<>>
    /\ import_stack = <<>>
    /\ resolver = resolver_new
    /\ block_stack = <<>>
    /\ defer_heap = <<>>
    /\ stmt_count = 0
    /\ resolve_state = [i |-> 0, draining |-> FALSE]
    /\ static_symbols = <<>>
    /\ diag = NoDiag

NextBodies ==
    \/ ResolveDeclFunctionQueue
    \/ CompleteFunctionEnter
    \/ ResolveStmtVariable
    \/ ResolveStmtJump
    \/ ResolveStmtEnter
    \/ ResolveStmtLeave
    \/ CompleteFunctionLeave

SpecBodies == InitBodies /\ [][NextBodies]_vars

\* The per-function state of the resolver is the one resolver_new leaves.
C30_Neutral(self) ==
    /\ self.current_function = NULL
    /\ self.current_rbp_offset = 0
    /\ ~self.is_within_loop
    /\ self.current_defer = NULL
    /\ self.current_loop_defer = NULL

(***************************************************************************)
(* C30: at the start and at the end of every complete_function call the    *)
(* per-function state of the resolver is neutral (current_function none,   *)
(* current_rbp_offset 0, is_within_loop false, current_defer and           *)
(* current_loop_defer none), whatever blocks, loops, defers and template   *)
(* instantiations the bodies completed before it held: no assertion of     *)
(* complete_function fails and every defer is chained to a defer of its    *)
(* own function or to none.                                                *)
(***************************************************************************)
C30_NeutralState ==
    /\ last_op.op = "complete_function_enter" => C30_Neutral(last_op.entry)
    /\ last_op.op = "complete_function" => C30_Neutral(resolver)
    /\ block_stack = <<>> => C30_Neutral(resolver)
    /\ diag.msg # "assertion failed"
    /\ \A d \in DOMAIN defer_heap :
          defer_heap[d].prev # NULL =>
              defer_heap[defer_heap[d].prev].function = defer_heap[d].function

\* complete_function begins on the instance of a template that the defer
\* of a range loop of the first body named, after that body, its loop and
\* its defer have been resolved.
C30_Witness ==
    /\ last_op.op = "complete_function_enter"
    /\ last_op.function = 2
    /\ incomplete_functions[2].instance_of = 1
    /\ incomplete_functions[1].local_stack_offset < 0
    /\ Len(defer_heap) = 1
    /\ defer_heap[1].is_within_loop
    /\ resolver.current_function = 2

====
